---- MODULE Spec2Model ----
(***************************************************************************)
(* The permission core of the JARVIS SDK: PolicyEngine (policy store, rule *)
(* matcher, evaluator) and PermissionAPI (check / checkWithDetails /       *)
(* enforce over the evaluator and the audit logger), and the TaskQueue     *)
(* that schedules the agents' tasks.                                       *)
(*                                                                         *)
(* Strings that are matched against glob patterns (actor ids, resources,   *)
(* patterns) are sequences of one-character strings.  Dynamically typed    *)
(* values (context values, condition values) are tagged records.           *)
(***************************************************************************)
EXTENDS Integers, Sequences, FiniteSets, TLC

VARIABLES
    policies,        \* PolicyEngine.policies: id -> Policy
    tenantPolicies,  \* PolicyEngine.tenantPolicies: tenant -> ids, insertion order
    nextId,          \* number of ids nanoid() has issued
    config,          \* PermissionAPI.defaultDeny / auditAll
    auditLog,        \* the audit logger's entries, oldest first
    last,            \* the most recent call and what it returned
    taskQueue,       \* the TaskQueue: queue, processing, taskHandlers, options
    handling         \* the processNext calls awaiting their handler

vars ==
    <<policies, tenantPolicies, nextId, config, auditLog, last, taskQueue, handling>>

queueVars == <<taskQueue, handling>>

(***************************************************************************)
(* Bounds of the exploration.                                              *)
(***************************************************************************)
MaxPolicies == 2
MaxAudit == 1
MaxBatch == 2
MaxPatternLen == 3
MaxSetupCalls == 2
MaxQueueSize == 2
MaxConcurrency == 2
MaxHandling == 2

Tenants == {"t1", "t2"}

(***************************************************************************)
(* Dynamically typed values: typeof, ===, Array.isArray, includes.  A      *)
(* string value carries its characters in s, a number its value in n (or   *)
(* the NaN mark in s), an array its elements in l.                         *)
(***************************************************************************)
Undefined == [t |-> "undefined", s |-> <<>>, n |-> 0, l |-> <<>>]
Str(s) == [t |-> "string", s |-> s, n |-> 0, l |-> <<>>]
Num(n) == [t |-> "number", s |-> <<>>, n |-> n, l |-> <<>>]
NaN == [t |-> "number", s |-> <<"NaN">>, n |-> 0, l |-> <<>>]
List(l) == [t |-> "array", s |-> <<>>, n |-> 0, l |-> l]

TypeOf(v) == IF v.t = "array" THEN "object" ELSE v.t

IsArray(v) == v.t = "array"

IsNaN(v) == v.t = "number" /\ v.s = <<"NaN">>

\* a === b.  Two arrays are equal only when they are the same object; a
\* context value and a condition value never are.
StrictEq(a, b) ==
    /\ a.t = b.t
    /\ a.t # "array"
    /\ ~IsNaN(a)
    /\ ~IsNaN(b)
    /\ a.s = b.s
    /\ a.n = b.n

\* Array.prototype.includes: SameValueZero, under which NaN equals NaN.
Includes(l, v) ==
    \E i \in 1..Len(l) : StrictEq(l[i], v) \/ (IsNaN(l[i]) /\ IsNaN(v))

\* a <= b and a >= b on numbers: false as soon as one side is NaN.
NumLe(a, b) == ~IsNaN(a) /\ ~IsNaN(b) /\ a.n <= b.n
NumGe(a, b) == ~IsNaN(a) /\ ~IsNaN(b) /\ a.n >= b.n

\* String.prototype.includes on character sequences.
IsSubstring(needle, hay) ==
    \E i \in 0..(Len(hay) - Len(needle)) :
        \A j \in 1..Len(needle) : hay[i + j] = needle[j]

\* context[field]
Lookup(context, field) ==
    IF field \in DOMAIN context THEN context[field] ELSE Undefined

NoContext == [k \in {} |-> Undefined]

(***************************************************************************)
(* matchesPattern: the pattern "*" matches everything; otherwise the       *)
(* pattern becomes the anchored regular expression in which every "*" is   *)
(* ".*" and every other character is itself.  "." does not match a line    *)
(* terminator.                                                             *)
(***************************************************************************)
\* (of the four line terminators, the two a TLA+ string can spell)
LineTerminators == {"\n", "\r"}

RECURSIVE RegexTest(_, _)
RegexTest(p, v) ==
    IF p = <<>> THEN v = <<>>
    ELSE IF Head(p) = "*"
         THEN \/ RegexTest(Tail(p), v)
              \/ /\ v # <<>>
                 /\ Head(v) \notin LineTerminators
                 /\ RegexTest(p, Tail(v))
         ELSE /\ v # <<>>
              /\ Head(v) = Head(p)
              /\ RegexTest(Tail(p), Tail(v))

MatchesPattern(pattern, value) ==
    IF pattern = <<"*">> THEN TRUE ELSE RegexTest(pattern, value)

(***************************************************************************)
(* The rule matcher.                                                       *)
(***************************************************************************)
MatchesActor(actors, actorType, actorId) ==
    \E i \in 1..Len(actors) :
        /\ actors[i].type = actorType \/ actors[i].type = "*"
        /\ MatchesPattern(actors[i].pattern, actorId)

MatchesResource(resources, resource) ==
    \E i \in 1..Len(resources) : MatchesPattern(resources[i], resource)

\* matchesAction without the wildcard.
MatchesActionExactOnly(actions, action) ==
    \E i \in 1..Len(actions) : actions[i] = action

MatchesAction(actions, action) ==
    \/ \E i \in 1..Len(actions) : actions[i] = "*"
    \/ \E i \in 1..Len(actions) : actions[i] = action

\* One iteration of the loop of matchesConditions: TRUE when the switch
\* reaches its break (or has no case for the operator), FALSE when it
\* returns false.
\* a condition that fails whenever the context lacks its field.
ConditionHoldsRequiringField(condition, context) ==
    /\ condition.field \in DOMAIN context
    /\ LET value == context[condition.field]
           op == condition.operator
       IN  CASE op = "eq" -> StrictEq(value, condition.value)
             [] op = "neq" -> ~StrictEq(value, condition.value)
             [] op = "in" ->
                   IsArray(condition.value) /\ Includes(condition.value.l, value)
             [] op = "nin" ->
                   ~(IsArray(condition.value) /\ Includes(condition.value.l, value))
             [] op = "gt" ->
                   /\ TypeOf(value) = "number"
                   /\ TypeOf(condition.value) = "number"
                   /\ ~NumLe(value, condition.value)
             [] op = "lt" ->
                   /\ TypeOf(value) = "number"
                   /\ TypeOf(condition.value) = "number"
                   /\ ~NumGe(value, condition.value)
             [] op = "contains" ->
                   /\ TypeOf(value) = "string"
                   /\ TypeOf(condition.value) = "string"
                   /\ IsSubstring(condition.value.s, value.s)
             [] OTHER -> TRUE

ConditionHolds(condition, context) ==
    LET value == Lookup(context, condition.field)
        op == condition.operator
    IN  CASE op = "eq" -> StrictEq(value, condition.value)
          [] op = "neq" -> ~StrictEq(value, condition.value)
          [] op = "in" ->
                IsArray(condition.value) /\ Includes(condition.value.l, value)
          [] op = "nin" ->
                ~(IsArray(condition.value) /\ Includes(condition.value.l, value))
          [] op = "gt" ->
                /\ TypeOf(value) = "number"
                /\ TypeOf(condition.value) = "number"
                /\ ~NumLe(value, condition.value)
          [] op = "lt" ->
                /\ TypeOf(value) = "number"
                /\ TypeOf(condition.value) = "number"
                /\ ~NumGe(value, condition.value)
          [] op = "contains" ->
                /\ TypeOf(value) = "string"
                /\ TypeOf(condition.value) = "string"
                /\ IsSubstring(condition.value.s, value.s)
          [] OTHER -> TRUE

\* matchesConditions taking one condition that holds for all of them.
MatchesConditionsAny(conditions, context) ==
    \E i \in 1..Len(conditions) : ConditionHolds(conditions[i], context)

MatchesConditions(conditions, context) ==
    \A i \in 1..Len(conditions) : ConditionHolds(conditions[i], context)

\* options.context ?? {}
ContextOf(options) ==
    IF options.hasContext THEN options.context ELSE NoContext

MatchesRule(rule, options) ==
    /\ MatchesActor(rule.actors, options.actorType, options.actorId)
    /\ MatchesResource(rule.resources, options.resource)
    /\ MatchesAction(rule.actions, options.action)
    /\ (Len(rule.conditions) > 0
          => MatchesConditions(rule.conditions, ContextOf(options)))

(***************************************************************************)
(* The policy store.  A store value st carries the two maps and the count  *)
(* of ids issued; every operation returns the store it leaves and, in      *)
(* ret, what it returns to its caller.                                     *)
(***************************************************************************)
NoDescription == "<undefined>"

NoOptions == [k \in {} |-> 0]

\* null
Null == [isNull |-> TRUE]

\* {...a, ...b}
Spread(a, b) ==
    [k \in DOMAIN a \cup DOMAIN b |-> IF k \in DOMAIN b THEN b[k] ELSE a[k]]

\* map.delete(key)
MapDelete(map, key) == [k \in DOMAIN map \ {key} |-> map[k]]

\* map.set(key, value)
MapSet(map, key, value) ==
    [k \in DOMAIN map \cup {key} |-> IF k = key THEN value ELSE map[k]]

\* set.add(x) on a Set, which keeps insertion order
SetAdd(set, x) ==
    IF \E i \in 1..Len(set) : set[i] = x THEN set ELSE Append(set, x)

\* set.delete(x)
SetDelete(set, x) == SelectSeq(set, LAMBDA y : y # x)

EmptyStore ==
    [policies |-> [k \in {} |-> Null],
     tenantPolicies |-> [k \in {} |-> <<>>],
     nextId |-> 0,
     ret |-> Null]

\* nanoid() issues the ids 1, 2, ... (never one twice); new Date() is the
\* ordinal of the creation.
CreatePolicy(st, tenantId, name, rules, options) ==
    LET policy ==
            [id |-> st.nextId + 1,
             tenantId |-> tenantId,
             name |-> name,
             description |->
                 IF "description" \in DOMAIN options
                 THEN options.description ELSE NoDescription,
             rules |-> rules,
             priority |->
                 IF "priority" \in DOMAIN options THEN options.priority ELSE 0,
             enabled |->
                 IF "enabled" \in DOMAIN options THEN options.enabled ELSE TRUE,
             createdAt |-> st.nextId + 1]
        tenantSet ==
            IF tenantId \in DOMAIN st.tenantPolicies
            THEN st.tenantPolicies[tenantId] ELSE <<>>
    IN  [policies |-> MapSet(st.policies, policy.id, policy),
         tenantPolicies |->
             MapSet(st.tenantPolicies, tenantId, SetAdd(tenantSet, policy.id)),
         nextId |-> st.nextId + 1,
         ret |-> policy]

GetPolicy(st, id) ==
    IF id \in DOMAIN st.policies THEN st.policies[id] ELSE Null

\* updatePolicy without the early return: a miss stores the payload under id.
UpdatePolicyUpserting(st, id, updates) ==
    LET updated ==
            IF id \in DOMAIN st.policies
            THEN Spread(st.policies[id], updates) ELSE updates
    IN  [st EXCEPT !.policies = MapSet(st.policies, id, updated),
                   !.ret = updated]

\* updatePolicy that takes the id out of its tenant's set and adds it again.
UpdatePolicyReinserting(st, id, updates) ==
    IF id \notin DOMAIN st.policies
    THEN [st EXCEPT !.ret = Null]
    ELSE LET updated == Spread(st.policies[id], updates)
             t == updated.tenantId
         IN  [st EXCEPT !.policies = MapSet(st.policies, id, updated),
                        !.tenantPolicies =
                            IF t \in DOMAIN st.tenantPolicies
                            THEN MapSet(st.tenantPolicies, t,
                                        SetAdd(SetDelete(st.tenantPolicies[t], id), id))
                            ELSE st.tenantPolicies,
                        !.ret = updated]

UpdatePolicy(st, id, updates) ==
    IF id \notin DOMAIN st.policies
    THEN [st EXCEPT !.ret = Null]
    ELSE LET updated == Spread(st.policies[id], updates)
         IN  [st EXCEPT !.policies = MapSet(st.policies, id, updated),
                        !.ret = updated]

\* deletePolicy without this.policies.delete(id).
DeletePolicyFromIndexOnly(st, id) ==
    IF id \notin DOMAIN st.policies
    THEN [st EXCEPT !.ret = FALSE]
    ELSE LET policy == st.policies[id]
         IN  [st EXCEPT
                !.tenantPolicies =
                    IF policy.tenantId \in DOMAIN st.tenantPolicies
                    THEN MapSet(st.tenantPolicies, policy.tenantId,
                                SetDelete(st.tenantPolicies[policy.tenantId], id))
                    ELSE st.tenantPolicies,
                !.ret = TRUE]

DeletePolicy(st, id) ==
    IF id \notin DOMAIN st.policies
    THEN [st EXCEPT !.ret = FALSE]
    ELSE LET policy == st.policies[id]
         IN  [st EXCEPT
                !.policies = MapDelete(st.policies, id),
                !.tenantPolicies =
                    IF policy.tenantId \in DOMAIN st.tenantPolicies
                    THEN MapSet(st.tenantPolicies, policy.tenantId,
                                SetDelete(st.tenantPolicies[policy.tenantId], id))
                    ELSE st.tenantPolicies,
                !.ret = TRUE]

\* The sort with the comparator turned round: (a, b) => a.priority - b.priority.
RECURSIVE SortByPriorityAsc(_)
SortByPriorityAsc(ps) ==
    IF ps = <<>> THEN <<>>
    ELSE LET n == Len(ps)
             sorted == SortByPriorityAsc(SubSeq(ps, 1, n - 1))
             x == ps[n]
             keep == SelectSeq(sorted, LAMBDA p : p.priority <= x.priority)
             rest == SelectSeq(sorted, LAMBDA p : p.priority > x.priority)
         IN  keep \o <<x>> \o rest

\* A sort that is not stable: an element goes in front of its equals.
RECURSIVE SortByPriorityDescUnstable(_)
SortByPriorityDescUnstable(ps) ==
    IF ps = <<>> THEN <<>>
    ELSE LET n == Len(ps)
             sorted == SortByPriorityDescUnstable(SubSeq(ps, 1, n - 1))
             x == ps[n]
             keep == SelectSeq(sorted, LAMBDA p : p.priority > x.priority)
             rest == SelectSeq(sorted, LAMBDA p : p.priority <= x.priority)
         IN  keep \o <<x>> \o rest

\* Array.prototype.sort with (a, b) => b.priority - a.priority: stable, so
\* an element goes behind every element whose priority is not lower.
RECURSIVE SortByPriorityDesc(_)
SortByPriorityDesc(ps) ==
    IF ps = <<>> THEN <<>>
    ELSE LET n == Len(ps)
             sorted == SortByPriorityDesc(SubSeq(ps, 1, n - 1))
             x == ps[n]
             keep == SelectSeq(sorted, LAMBDA p : p.priority >= x.priority)
             rest == SelectSeq(sorted, LAMBDA p : p.priority < x.priority)
         IN  keep \o <<x>> \o rest

\* listPolicies reading the primary map instead of the tenant index.
ListPoliciesOfAllTenants(st, tenantId) ==
    LET RECURSIVE AsSeq(_)
        AsSeq(ids) ==
            IF ids = {} THEN <<>>
            ELSE LET id == CHOOSE x \in ids : \A y \in ids : x <= y
                 IN  <<st.policies[id]>> \o AsSeq(ids \ {id})
    IN  SortByPriorityDesc(AsSeq(DOMAIN st.policies))

ListPolicies(st, tenantId) ==
    IF tenantId \notin DOMAIN st.tenantPolicies THEN <<>>
    ELSE LET ids == SelectSeq(st.tenantPolicies[tenantId],
                              LAMBDA id : id \in DOMAIN st.policies)
         IN  SortByPriorityDesc([i \in 1..Len(ids) |-> st.policies[ids[i]]])

(***************************************************************************)
(* The evaluator.  An absent matchedPolicy / matchedRule is NoMatch.       *)
(***************************************************************************)
NoMatch == -1

ReasonNoPolicies == <<"No policies defined">>
ReasonDefaultDeny == <<"No matching policy rule (default deny)">>
ReasonMatched(name, i) == <<"Matched policy \"", name, "\" rule ", ToString(i + 1)>>

\* The zero-based indexes of the rules of a policy that match.
MatchingRules(policy, options) ==
    {i \in 0..(Len(policy.rules) - 1) : MatchesRule(policy.rules[i + 1], options)}

Min(S) == CHOOSE x \in S : \A y \in S : x <= y

Max(S) == CHOOSE x \in S : \A y \in S : x >= y

\* evaluate letting a later matching rule of the policy override an earlier one.
RECURSIVE EvaluateFromLastRule(_, _, _)
EvaluateFromLastRule(ps, k, options) ==
    IF k > Len(ps)
    THEN [allowed |-> FALSE, reason |-> ReasonDefaultDeny,
          matchedPolicy |-> NoMatch, matchedRule |-> NoMatch]
    ELSE LET policy == ps[k]
             hits == MatchingRules(policy, options)
         IN  IF hits # {}
             THEN LET i == Max(hits)
                  IN  [allowed |-> policy.rules[i + 1].effect = "allow",
                       reason |-> ReasonMatched(policy.name, i),
                       matchedPolicy |-> policy.id,
                       matchedRule |-> i]
             ELSE EvaluateFromLastRule(ps, k + 1, options)

\* evaluate branching on the defaultDeny flag when nothing matched.
RECURSIVE EvaluateFromHonouringDefaultDeny(_, _, _)
EvaluateFromHonouringDefaultDeny(ps, k, options) ==
    IF k > Len(ps)
    THEN [allowed |-> ~config.defaultDeny, reason |-> ReasonDefaultDeny,
          matchedPolicy |-> NoMatch, matchedRule |-> NoMatch]
    ELSE LET policy == ps[k]
             hits == MatchingRules(policy, options)
         IN  IF hits # {}
             THEN LET i == Min(hits)
                  IN  [allowed |-> policy.rules[i + 1].effect = "allow",
                       reason |-> ReasonMatched(policy.name, i),
                       matchedPolicy |-> policy.id,
                       matchedRule |-> i]
             ELSE EvaluateFromHonouringDefaultDeny(ps, k + 1, options)

\* The two nested loops of evaluate over the enabled policies ps, from
\* position k on.
RECURSIVE EvaluateFrom(_, _, _)
EvaluateFrom(ps, k, options) ==
    IF k > Len(ps)
    THEN [allowed |-> FALSE, reason |-> ReasonDefaultDeny,
          matchedPolicy |-> NoMatch, matchedRule |-> NoMatch]
    ELSE LET policy == ps[k]
             hits == MatchingRules(policy, options)
         IN  IF hits # {}
             THEN LET i == Min(hits)
                  IN  [allowed |-> policy.rules[i + 1].effect = "allow",
                       reason |-> ReasonMatched(policy.name, i),
                       matchedPolicy |-> policy.id,
                       matchedRule |-> i]
             ELSE EvaluateFrom(ps, k + 1, options)

\* evaluate without the early return for an empty policy list.
EvaluateWithoutEmptyCheck(st, tenantId, options) ==
    EvaluateFrom(SelectSeq(ListPolicies(st, tenantId), LAMBDA p : p.enabled),
                 1, options)

\* evaluate without the filter on enabled.
EvaluateIncludingDisabled(st, tenantId, options) ==
    LET ps == ListPolicies(st, tenantId)
    IN  IF Len(ps) = 0
        THEN [allowed |-> FALSE, reason |-> ReasonNoPolicies,
              matchedPolicy |-> NoMatch, matchedRule |-> NoMatch]
        ELSE EvaluateFrom(ps, 1, options)

Evaluate(st, tenantId, options) ==
    LET ps == SelectSeq(ListPolicies(st, tenantId), LAMBDA p : p.enabled)
    IN  IF Len(ps) = 0
        THEN [allowed |-> FALSE, reason |-> ReasonNoPolicies,
              matchedPolicy |-> NoMatch, matchedRule |-> NoMatch]
        ELSE EvaluateFrom(ps, 1, options)

\* evaluate sorting the tenant's ids in place, in the index itself.
EvaluateSortingTheIndex(st, tenantId, options) ==
    [st EXCEPT
       !.tenantPolicies =
           IF tenantId \in DOMAIN st.tenantPolicies
           THEN LET listed == ListPolicies(st, tenantId)
                IN  MapSet(st.tenantPolicies, tenantId,
                           [i \in 1..Len(listed) |-> listed[i].id])
           ELSE st.tenantPolicies,
       !.ret = Evaluate(st, tenantId, options)]

\* The store evaluate leaves, with its result in ret: evaluate and the
\* listPolicies it calls assign to no field; Array.from copies the tenant's
\* Set, and map, filter and sort work on that copy.
EvaluateOnStore(st, tenantId, options) ==
    [st EXCEPT !.ret = Evaluate(st, tenantId, options)]

(***************************************************************************)
(* Built-in policies.                                                      *)
(***************************************************************************)
AnyPattern == <<"*">>

AdminRules ==
    <<[effect |-> "allow",
       actors |-> <<[type |-> "user", pattern |-> AnyPattern]>>,
       resources |-> <<AnyPattern>>,
       actions |-> <<"*">>,
       conditions |-> <<[field |-> "role", operator |-> "eq",
                         value |-> Str(<<"a", "d", "m", "i", "n">>)]>>]>>

\* the agent policy with its two rules the other way round.
AgentRulesDenyFirst ==
    <<[effect |-> "deny",
       actors |-> <<[type |-> "agent", pattern |-> AnyPattern]>>,
       resources |-> << <<"u", "s", "e", "r", ":", "*">>,
                        <<"t", "e", "n", "a", "n", "t", ":", "*">>,
                        <<"p", "o", "l", "i", "c", "y", ":", "*">> >>,
       actions |-> <<"*">>,
       conditions |-> <<>>],
      [effect |-> "allow",
       actors |-> <<[type |-> "agent", pattern |-> AnyPattern]>>,
       resources |-> << <<"t", "a", "s", "k", ":", "*">>,
                        <<"m", "e", "m", "o", "r", "y", ":", "*">>,
                        <<"v", "a", "u", "l", "t", ":", "*">> >>,
       actions |-> <<"read", "create", "update", "execute">>,
       conditions |-> <<>>]>>

AgentRules ==
    <<[effect |-> "allow",
       actors |-> <<[type |-> "agent", pattern |-> AnyPattern]>>,
       resources |-> << <<"t", "a", "s", "k", ":", "*">>,
                        <<"m", "e", "m", "o", "r", "y", ":", "*">>,
                        <<"v", "a", "u", "l", "t", ":", "*">> >>,
       actions |-> <<"read", "create", "update", "execute">>,
       conditions |-> <<>>],
      [effect |-> "deny",
       actors |-> <<[type |-> "agent", pattern |-> AnyPattern]>>,
       resources |-> << <<"u", "s", "e", "r", ":", "*">>,
                        <<"t", "e", "n", "a", "n", "t", ":", "*">>,
                        <<"p", "o", "l", "i", "c", "y", ":", "*">> >>,
       actions |-> <<"*">>,
       conditions |-> <<>>]>>

CreateAdminPolicy(st, tenantId) ==
    CreatePolicy(st, tenantId, "Admin Full Access", AdminRules,
                 [description |-> "Full access for admin users", priority |-> 100])

CreateAgentPolicy(st, tenantId) ==
    CreatePolicy(st, tenantId, "Agent Default Access", AgentRules,
                 [description |-> "Default access for agents", priority |-> 50])

SetupDefaultPolicies(st, tenantId) ==
    LET afterAdmin == CreateAdminPolicy(st, tenantId)
        afterAgent == CreateAgentPolicy(afterAdmin, tenantId)
    IN  [afterAgent EXCEPT
            !.ret = [admin |-> afterAdmin.ret, agent |-> afterAgent.ret]]

EnablePolicy(st, id) == UpdatePolicy(st, id, [enabled |-> TRUE])

DisablePolicy(st, id) == UpdatePolicy(st, id, [enabled |-> FALSE])

(***************************************************************************)
(* The audit logger: log appends one entry; when the store behind it is    *)
(* unavailable (ok = FALSE) the call fails and nothing is appended.        *)
(***************************************************************************)
NoError == <<>>

AuditWriteFailure == <<"audit store unavailable">>

LoggerLog(log, actorId, actorType, action, resource, result, details, tenantId, ok) ==
    IF ok
    THEN [auditLog |->
              Append(log, [id |-> Len(log) + 1,
                           tenantId |-> tenantId,
                           actorId |-> actorId,
                           actorType |-> actorType,
                           action |-> action,
                           resource |-> resource,
                           result |-> result,
                           details |-> details]),
          error |-> NoError]
    ELSE [auditLog |-> log, error |-> AuditWriteFailure]

\* The reading operations of the logger.  A query names the fields it
\* filters by; an absent limit is Undefined, an absent tenant NoTenant.
NoTenant == "<undefined>"

QueryFields == {"tenantId", "actorId", "actorType", "action", "resource", "result"}

FilterMatches(entry, query) ==
    \A k \in DOMAIN query \cap QueryFields : entry[k] = query[k]

Reverse(seq) == [i \in 1..Len(seq) |-> seq[Len(seq) + 1 - i]]

Take(seq, n) == SubSeq(seq, 1, IF n < Len(seq) THEN n ELSE Len(seq))

WithLimit(query, limit) ==
    IF limit = Undefined THEN query ELSE Spread(query, [limit |-> limit.n])

\* query: the matching entries, most recent first, from offset, up to limit
LoggerQuery(log, query) ==
    LET matching == SelectSeq(Reverse(log), LAMBDA e : FilterMatches(e, query))
        skipped ==
            IF "offset" \in DOMAIN query
            THEN SubSeq(matching, query.offset + 1, Len(matching))
            ELSE matching
        limited ==
            IF "limit" \in DOMAIN query THEN Take(skipped, query.limit)
            ELSE skipped
    IN  [auditLog |-> log, ret |-> limited]

LoggerGetRecent(log, limit) == LoggerQuery(log, WithLimit(NoOptions, limit))

LoggerGetByActor(log, actorId, options) ==
    LoggerQuery(log, WithLimit([actorId |-> actorId], options.limit))

LoggerGetDenied(log, options) ==
    LoggerQuery(log, WithLimit([result |-> "denied"], options.limit))

AuditResults == {"success", "denied", "error"}

\* getStats: the counts of a tenant's entries (of all entries without one)
LoggerGetStats(log, tenantId) ==
    LET entries ==
            IF tenantId = NoTenant THEN log
            ELSE SelectSeq(log, LAMBDA e : e.tenantId = tenantId)
    IN  [auditLog |-> log,
         ret |-> [total |-> Len(entries),
                  byResult |->
                      [r \in AuditResults |->
                          Len(SelectSeq(entries, LAMBDA e : e.result = r))]]]

\* getTimeline: the entries counted per window of bucketMinutes; an entry's
\* timestamp is its ordinal in the log
LoggerGetTimeline(log, options) ==
    LET entries == LoggerQuery(log, [k \in DOMAIN options \cap QueryFields |-> options[k]]).ret
        bucketOf(e) == (e.id - 1) \div options.bucketMinutes
        buckets == {bucketOf(entries[i]) : i \in 1..Len(entries)}
    IN  [auditLog |-> log,
         ret |-> [b \in buckets |->
                     Len(SelectSeq(entries, LAMBDA e : bucketOf(e) = b))]]

\* export: one record of text per matching entry
LoggerExport(log, query) ==
    LET entries == LoggerQuery(log, query).ret
    IN  [auditLog |-> log,
         ret |-> [i \in 1..Len(entries) |->
                     <<entries[i].id, entries[i].actorId, entries[i].actorType,
                       entries[i].action, entries[i].resource, entries[i].result>>]]

(***************************************************************************)
(* PermissionAPI: the audit log's readers.  Each returns the audit log it  *)
(* leaves and its return value.                                            *)
(***************************************************************************)
\* queryAuditLog taking what it returns out of the log.
QueryAuditLogDraining(log, query) ==
    LET out == LoggerQuery(log, query)
    IN  [auditLog |->
             SelectSeq(log, LAMBDA e :
                 \A i \in 1..Len(out.ret) : out.ret[i].id # e.id),
         ret |-> out.ret]

QueryAuditLog(log, query) == LoggerQuery(log, query)

GetRecentAuditEntries(log, limit) == LoggerGetRecent(log, limit)

GetAuditByActor(log, actorId, limit) ==
    LoggerGetByActor(log, actorId, [limit |-> limit])

GetDeniedActions(log, limit) == LoggerGetDenied(log, [limit |-> limit])

GetAuditStats(log, tenantId) == LoggerGetStats(log, tenantId)

GetActivityTimeline(log, options) == LoggerGetTimeline(log, options)

ExportAuditLog(log, query) == LoggerExport(log, query)

(***************************************************************************)
(* PermissionAPI: check, checkWithDetails, enforce.  Each returns the      *)
(* audit log it leaves, the message of the error it raises (NoError when   *)
(* it returns) and its return value.                                       *)
(***************************************************************************)
\* options.context, which is undefined when the request carries none
DetailContext(options) ==
    IF options.hasContext THEN [defined |-> TRUE, value |-> options.context]
    ELSE [defined |-> FALSE]

\* check auditing only under auditAll, denials included.
CheckAuditingOnlyUnderAuditAll(st, log, cfg, tenantId, options, logOk) ==
    LET result == Evaluate(st, tenantId, options)
    IN  IF cfg.auditAll
        THEN LET logged ==
                     LoggerLog(log, options.actorId, options.actorType,
                               options.action, options.resource,
                               IF result.allowed THEN "success" ELSE "denied",
                               [reason |-> result.reason,
                                matchedPolicy |-> result.matchedPolicy,
                                context |-> DetailContext(options)],
                               tenantId, logOk)
             IN  IF logged.error # NoError
                 THEN [auditLog |-> logged.auditLog, error |-> logged.error,
                       ret |-> Null]
                 ELSE [auditLog |-> logged.auditLog, error |-> NoError,
                       ret |-> result.allowed]
        ELSE [auditLog |-> log, error |-> NoError, ret |-> result.allowed]

Check(st, log, cfg, tenantId, options, logOk) ==
    LET result == Evaluate(st, tenantId, options)
    IN  IF cfg.auditAll \/ ~result.allowed
        THEN LET logged ==
                     LoggerLog(log, options.actorId, options.actorType,
                               options.action, options.resource,
                               IF result.allowed THEN "success" ELSE "denied",
                               [reason |-> result.reason,
                                matchedPolicy |-> result.matchedPolicy,
                                context |-> DetailContext(options)],
                               tenantId, logOk)
             IN  IF logged.error # NoError
                 THEN [auditLog |-> logged.auditLog, error |-> logged.error,
                       ret |-> Null]
                 ELSE [auditLog |-> logged.auditLog, error |-> NoError,
                       ret |-> result.allowed]
        ELSE [auditLog |-> log, error |-> NoError, ret |-> result.allowed]

CheckWithDetails(st, log, cfg, tenantId, options, logOk) ==
    LET result == Evaluate(st, tenantId, options)
    IN  IF cfg.auditAll \/ ~result.allowed
        THEN LET logged ==
                     LoggerLog(log, options.actorId, options.actorType,
                               options.action, options.resource,
                               IF result.allowed THEN "success" ELSE "denied",
                               [reason |-> result.reason,
                                matchedPolicy |-> result.matchedPolicy,
                                matchedRule |-> result.matchedRule,
                                context |-> DetailContext(options)],
                               tenantId, logOk)
             IN  IF logged.error # NoError
                 THEN [auditLog |-> logged.auditLog, error |-> logged.error,
                       ret |-> Null]
                 ELSE [auditLog |-> logged.auditLog, error |-> NoError,
                       ret |-> result]
        ELSE [auditLog |-> log, error |-> NoError, ret |-> result]

\* enforce raising an error that leaves result.reason out.
EnforceWithoutReason(st, log, cfg, tenantId, options, logOk) ==
    LET checked == CheckWithDetails(st, log, cfg, tenantId, options, logOk)
    IN  IF checked.error # NoError THEN checked
        ELSE IF ~checked.ret.allowed
             THEN [auditLog |-> checked.auditLog,
                   error |-> <<"Permission denied">>,
                   ret |-> Null]
             ELSE [auditLog |-> checked.auditLog, error |-> NoError, ret |-> Null]

Enforce(st, log, cfg, tenantId, options, logOk) ==
    LET checked == CheckWithDetails(st, log, cfg, tenantId, options, logOk)
    IN  IF checked.error # NoError THEN checked
        ELSE IF ~checked.ret.allowed
             THEN [auditLog |-> checked.auditLog,
                   error |-> <<"Permission denied: ">> \o checked.ret.reason,
                   ret |-> Null]
             ELSE [auditLog |-> checked.auditLog, error |-> NoError, ret |-> Null]

(***************************************************************************)
(* PermissionAPI: checkMultiple, canAny, canAll.  Each is a loop of check  *)
(* calls; it returns the store and the audit log it leaves, the message of *)
(* the error it raises and its return value.                               *)
(***************************************************************************)
\* `${check.actorId}:${check.action}:${check.resource}`, as the sequence of
\* the pieces of the template (the action is one piece)
KeyOf(check) == check.actorId \o <<":", check.action, ":">> \o check.resource

NoResults == [k \in {} |-> FALSE]

\* the loop of checkMultiple from checks[k] on, with the Map filled so far
RECURSIVE CheckMultipleFrom(_, _, _, _, _, _, _, _)
CheckMultipleFrom(st, log, cfg, tenantId, checks, logOk, k, results) ==
    IF k > Len(checks)
    THEN [store |-> st, auditLog |-> log, error |-> NoError, ret |-> results]
    ELSE LET checked == Check(st, log, cfg, tenantId, checks[k], logOk)
             evaluated == EvaluateOnStore(st, tenantId, checks[k])
         IN  IF checked.error # NoError
             THEN [store |-> evaluated, auditLog |-> checked.auditLog,
                   error |-> checked.error, ret |-> Null]
             ELSE CheckMultipleFrom(evaluated, checked.auditLog, cfg, tenantId,
                                    checks, logOk, k + 1,
                                    MapSet(results, KeyOf(checks[k]), checked.ret))

CheckMultiple(st, log, cfg, tenantId, checks, logOk) ==
    CheckMultipleFrom(st, log, cfg, tenantId, checks, logOk, 1, NoResults)

\* the request canAny and canAll build for one action: it has no context
ActionRequest(actorId, actorType, resource, action) ==
    [actorId |-> actorId, actorType |-> actorType, resource |-> resource,
     action |-> action, hasContext |-> FALSE, context |-> NoContext]

\* the loop of canAny (stopAt = TRUE) and of canAll (stopAt = FALSE) from
\* actions[k] on: it returns stopAt at the first check that gives stopAt
RECURSIVE CanFrom(_, _, _, _, _, _, _, _)
CanFrom(st, log, cfg, tenantId, target, logOk, k, stopAt) ==
    IF k > Len(target.actions)
    THEN [store |-> st, auditLog |-> log, error |-> NoError, ret |-> ~stopAt]
    ELSE LET options == ActionRequest(target.actorId, target.actorType,
                                      target.resource, target.actions[k])
             checked == Check(st, log, cfg, tenantId, options, logOk)
             evaluated == EvaluateOnStore(st, tenantId, options)
         IN  IF checked.error # NoError
             THEN [store |-> evaluated, auditLog |-> checked.auditLog,
                   error |-> checked.error, ret |-> Null]
             ELSE IF checked.ret = stopAt
             THEN [store |-> evaluated, auditLog |-> checked.auditLog,
                   error |-> NoError, ret |-> stopAt]
             ELSE CanFrom(evaluated, checked.auditLog, cfg, tenantId, target,
                          logOk, k + 1, stopAt)

\* canAny going on after the first allowed action.
CanAnyCheckingEveryAction(st, log, cfg, tenantId, target, logOk) ==
    LET RECURSIVE Loop(_, _, _, _)
        Loop(s, l, k, found) ==
            IF k > Len(target.actions)
            THEN [store |-> s, auditLog |-> l, error |-> NoError, ret |-> found]
            ELSE LET options == ActionRequest(target.actorId, target.actorType,
                                              target.resource, target.actions[k])
                     checked == Check(s, l, cfg, tenantId, options, logOk)
                 IN  Loop(EvaluateOnStore(s, tenantId, options), checked.auditLog,
                          k + 1, found \/ checked.ret)
    IN  Loop(st, log, 1, FALSE)

CanAny(st, log, cfg, tenantId, target, logOk) ==
    CanFrom(st, log, cfg, tenantId, target, logOk, 1, TRUE)

CanAll(st, log, cfg, tenantId, target, logOk) ==
    CanFrom(st, log, cfg, tenantId, target, logOk, 1, FALSE)

(***************************************************************************)
(* Inputs of the exploration.                                              *)
(***************************************************************************)
Request(actorId, actorType, resource, action) ==
    [actorId |-> actorId, actorType |-> actorType, resource |-> resource,
     action |-> action, hasContext |-> FALSE, context |-> NoContext]

WithContext(options, context) ==
    [options EXCEPT !.hasContext = TRUE, !.context = context]

RoleAdmin == [k \in {"role"} |-> Str(<<"a", "d", "m", "i", "n">>)]

ReqAgentUser == Request(<<"a", "1">>, "agent", <<"u", "s", "e", "r", ":", "1">>, "read")
ReqAgentTask == Request(<<"a", "1">>, "agent", <<"t", "a", "s", "k", ":", "1">>, "execute")
ReqUserDocRead ==
    WithContext(Request(<<"u", "1">>, "user", <<"d", "o", "c", ":", "4", "2">>, "read"),
                RoleAdmin)
ReqUserDocDelete == Request(<<"u", "1">>, "user", <<"d", "o", "c", ":", "4", "2">>, "delete")

Requests == {ReqAgentUser, ReqAgentTask, ReqUserDocRead, ReqUserDocDelete}

Rule(effect, actorType, resource, action, conditions) ==
    [effect |-> effect,
     actors |-> <<[type |-> actorType, pattern |-> AnyPattern]>>,
     resources |-> <<resource>>,
     actions |-> <<action>>,
     conditions |-> conditions]

DocsRules == <<Rule("allow", "user", <<"d", "o", "c", ":", "*">>, "read", <<>>)>>

OpenRules == <<Rule("allow", "*", AnyPattern, "*", <<>>)>>

GuardRules ==
    <<Rule("deny", "agent", <<"u", "s", "e", "r", ":", "*">>, "*", <<>>),
      Rule("allow", "*", AnyPattern, "*", <<>>)>>

\* a rule whose condition names an operator the evaluator has no case for
RegexRules ==
    <<Rule("allow", "user", AnyPattern, "*",
           <<[field |-> "role", operator |-> "regex",
              value |-> Str(<<"^", "o", "p", "s">>)]>>)>>

DocsInput == [name |-> "docs", rules |-> DocsRules, options |-> [priority |-> 10]]
OpenInput == [name |-> "open", rules |-> OpenRules, options |-> NoOptions]
GuardInput ==
    [name |-> "guard", rules |-> GuardRules,
     options |-> [priority |-> 60, enabled |-> FALSE]]
RegexInput == [name |-> "regex", rules |-> RegexRules, options |-> [priority |-> 10]]

PolicyInputs == {DocsInput, OpenInput, GuardInput}

UpdateInputs == {[priority |-> 60]}

FacadeRequests == {ReqAgentUser, ReqUserDocRead}

PolicyIds == 1..(MaxPolicies + 1)

(***************************************************************************)
(* TaskQueue.  A task is a record of its id, agentId (NoAgent when it has  *)
(* none), priority, status and result; the queue object is a record of its *)
(* fields.  Every operation returns the queue object it leaves (tq) and    *)
(* what it returns to its caller (ret).                                    *)
(***************************************************************************)
PRIORITY_VALUES == [p0 |-> 0, p1 |-> 1, p2 |-> 2, p3 |-> 3]

DefaultMaxSize == 1000

DefaultMaxConcurrent == 4

NoAgent == "<undefined>"

NoResult == [isUndefined |-> TRUE]

\* new TaskQueue(options)
NewTaskQueue(options) ==
    [queue |-> <<>>,
     processing |-> [k \in {} |-> Null],
     taskHandlers |-> {},
     maxSize |->
         IF "maxSize" \in DOMAIN options THEN options.maxSize ELSE DefaultMaxSize,
     maxConcurrent |->
         IF "maxConcurrent" \in DOMAIN options
         THEN options.maxConcurrent ELSE DefaultMaxConcurrent]

\* array.splice(index, 0, x) and array.splice(index, 1), index from 0
SpliceIn(array, index, x) ==
    SubSeq(array, 1, index) \o <<x>> \o SubSeq(array, index + 1, Len(array))

SpliceOut(array, index) ==
    SubSeq(array, 1, index) \o SubSeq(array, index + 2, Len(array))

\* array.findIndex(test), given the outcome of test on each element: the
\* first index from 0 that passes, -1 when none
FindIndex(passes) ==
    IF \E i \in 1..Len(passes) : passes[i]
    THEN (CHOOSE i \in 1..Len(passes) :
              passes[i] /\ \A j \in 1..(i - 1) : ~passes[j]) - 1
    ELSE -1

\* findInsertIndex putting a task in front of the tasks of its own priority.
FindInsertIndexBeforeEquals(queue, task) ==
    LET index ==
            FindIndex([i \in 1..Len(queue) |->
                PRIORITY_VALUES[task.priority] <= PRIORITY_VALUES[queue[i].priority]])
    IN  IF index = -1 THEN Len(queue) ELSE index

FindInsertIndex(queue, task) ==
    LET index ==
            FindIndex([i \in 1..Len(queue) |->
                PRIORITY_VALUES[task.priority] < PRIORITY_VALUES[queue[i].priority]])
    IN  IF index = -1 THEN Len(queue) ELSE index

Enqueue(tq, task) ==
    IF Len(tq.queue) >= tq.maxSize
    THEN [tq |-> tq, ret |-> FALSE]
    ELSE LET queuedTask == [task EXCEPT !.status = "queued"]
             insertIndex == FindInsertIndex(tq.queue, queuedTask)
         IN  [tq |-> [tq EXCEPT !.queue = SpliceIn(tq.queue, insertIndex, queuedTask)],
              ret |-> TRUE]

ProcessingSize(tq) == Cardinality(DOMAIN tq.processing)

\* dequeue without the test of processing.size against maxConcurrent.
DequeueUnbounded(tq) ==
    IF Len(tq.queue) = 0
    THEN [tq |-> tq, ret |-> Null]
    ELSE LET task == [Head(tq.queue) EXCEPT !.status = "running"]
         IN  [tq |-> [tq EXCEPT !.queue = Tail(tq.queue),
                                !.processing = MapSet(tq.processing, task.id, task)],
              ret |-> task]

Dequeue(tq) ==
    IF Len(tq.queue) = 0
    THEN [tq |-> tq, ret |-> Null]
    ELSE IF ProcessingSize(tq) >= tq.maxConcurrent
    THEN [tq |-> tq, ret |-> Null]
    ELSE LET task == [Head(tq.queue) EXCEPT !.status = "running"]
         IN  [tq |-> [tq EXCEPT !.queue = Tail(tq.queue),
                                !.processing = MapSet(tq.processing, task.id, task)],
              ret |-> task]

DequeueForAgent(tq, agentId) ==
    LET index ==
            FindIndex([i \in 1..Len(tq.queue) |->
                tq.queue[i].agentId = NoAgent \/ tq.queue[i].agentId = agentId])
    IN  IF index = -1
        THEN [tq |-> tq, ret |-> Null]
        ELSE IF ProcessingSize(tq) >= tq.maxConcurrent
        THEN [tq |-> tq, ret |-> Null]
        ELSE LET task == [tq.queue[index + 1] EXCEPT !.status = "running",
                                                     !.agentId = agentId]
             IN  [tq |-> [tq EXCEPT !.queue = SpliceOut(tq.queue, index),
                                    !.processing =
                                        MapSet(tq.processing, task.id, task)],
                  ret |-> task]

Complete(tq, taskId, result) ==
    IF taskId \notin DOMAIN tq.processing
    THEN [tq |-> tq, ret |-> Null]
    ELSE [tq |-> [tq EXCEPT !.processing = MapDelete(tq.processing, taskId)],
          ret |-> [tq.processing[taskId] EXCEPT !.status = "completed",
                                                !.result = result]]

Fail(tq, taskId, error) ==
    IF taskId \notin DOMAIN tq.processing
    THEN [tq |-> tq, ret |-> Null]
    ELSE [tq |-> [tq EXCEPT !.processing = MapDelete(tq.processing, taskId)],
          ret |-> [tq.processing[taskId] EXCEPT
                       !.status = "failed",
                       !.result = [success |-> FALSE, error |-> error]]]

Cancel(tq, taskId) ==
    IF taskId \in DOMAIN tq.processing
    THEN [tq |-> [tq EXCEPT !.processing = MapDelete(tq.processing, taskId)],
          ret |-> TRUE]
    ELSE LET index == FindIndex([i \in 1..Len(tq.queue) |-> tq.queue[i].id = taskId])
         IN  IF index # -1
             THEN [tq |-> [tq EXCEPT !.queue = SpliceOut(tq.queue, index)],
                   ret |-> TRUE]
             ELSE [tq |-> tq, ret |-> FALSE]

Clear(tq) ==
    [tq |-> [tq EXCEPT !.queue = <<>>, !.processing = [k \in {} |-> Null]],
     ret |-> NoResult]

Prioritize(tq, taskId, newPriority) ==
    LET index == FindIndex([i \in 1..Len(tq.queue) |-> tq.queue[i].id = taskId])
    IN  IF index = -1
        THEN [tq |-> tq, ret |-> FALSE]
        ELSE LET task == [tq.queue[index + 1] EXCEPT !.priority = newPriority]
                 rest == SpliceOut(tq.queue, index)
                 insertIndex == FindInsertIndex(rest, task)
             IN  [tq |-> [tq EXCEPT !.queue = SpliceIn(rest, insertIndex, task)],
                  ret |-> TRUE]

RegisterHandler(tq, agentId) ==
    [tq |-> [tq EXCEPT !.taskHandlers = tq.taskHandlers \cup {agentId}],
     ret |-> NoResult]

\* processNext up to its await: started tells whether the handler was called
ProcessNextStart(tq, agentId) ==
    IF agentId \notin tq.taskHandlers
    THEN [tq |-> tq, ret |-> Null, started |-> FALSE]
    ELSE LET out == DequeueForAgent(tq, agentId)
         IN  [tq |-> out.tq, ret |-> out.ret, started |-> out.ret # Null]

\* processNext after its await: the handler has resolved, or rejected with
\* an Error or with another value
ProcessNextEnd(tq, taskId, outcome) ==
    IF outcome.resolved
    THEN Complete(tq, taskId, [success |-> TRUE])
    ELSE Fail(tq, taskId,
              IF outcome.isError THEN outcome.message ELSE "Unknown error")

(***************************************************************************)
(* The state machine.                                                      *)
(***************************************************************************)
Store ==
    [policies |-> policies, tenantPolicies |-> tenantPolicies,
     nextId |-> nextId, ret |-> Null]

Init ==
    /\ policies = EmptyStore.policies
    /\ tenantPolicies = EmptyStore.tenantPolicies
    /\ nextId = EmptyStore.nextId
    /\ config \in [defaultDeny : BOOLEAN, auditAll : BOOLEAN]
    /\ auditLog = <<>>
    /\ taskQueue = NewTaskQueue(NoOptions)
    /\ handling = <<>>
    /\ last = [op |-> "construct"]

\* the store operation leaves the store `out`
StoreStep(out, op, arg) ==
    /\ policies' = out.policies
    /\ tenantPolicies' = out.tenantPolicies
    /\ nextId' = out.nextId
    /\ last' = [op |-> op, arg |-> arg, ret |-> out.ret]
    /\ UNCHANGED <<config, auditLog, queueVars>>

DoCreatePolicy(tenantId, input) ==
    /\ nextId < MaxPolicies
    /\ StoreStep(CreatePolicy(Store, tenantId, input.name, input.rules, input.options),
                 "createPolicy", tenantId)

\* setupDefaultPolicies in a store that holds up to `capacity` policies
SetupWithin(tenantId, capacity) ==
    /\ nextId + 2 <= capacity
    /\ StoreStep(SetupDefaultPolicies(Store, tenantId), "setupDefaultPolicies", tenantId)

DoSetupDefaultPolicies(tenantId) == SetupWithin(tenantId, MaxPolicies)

DoCreateAgentPolicy(tenantId) ==
    /\ nextId < MaxPolicies
    /\ StoreStep(CreateAgentPolicy(Store, tenantId), "createAgentPolicy", tenantId)

DoUpdatePolicy(id, updates) ==
    StoreStep(UpdatePolicy(Store, id, updates), "updatePolicy", id)

DoGetPolicy(id) ==
    StoreStep([Store EXCEPT !.ret = GetPolicy(Store, id)], "getPolicy", id)

DoEnablePolicy(id) == StoreStep(EnablePolicy(Store, id), "enablePolicy", id)

DoDisablePolicy(id) == StoreStep(DisablePolicy(Store, id), "disablePolicy", id)

DoDeletePolicy(id) == StoreStep(DeletePolicy(Store, id), "deletePolicy", id)

\* the facade operation leaves `out`, its call of evaluate the store `after`
FacadeStep(out, after, op, tenantId, options) ==
    /\ Len(out.auditLog) <= MaxAudit
    /\ auditLog' = out.auditLog
    /\ policies' = after.policies
    /\ tenantPolicies' = after.tenantPolicies
    /\ nextId' = after.nextId
    /\ last' = [op |-> op, tenantId |-> tenantId, options |-> options,
                error |-> out.error, ret |-> out.ret,
                entriesBefore |-> Len(auditLog)]
    /\ UNCHANGED <<config, queueVars>>

DoCheck(tenantId, options, logOk) ==
    FacadeStep(Check(Store, auditLog, config, tenantId, options, logOk),
               EvaluateOnStore(Store, tenantId, options),
               "check", tenantId, options)

DoCheckWithDetails(tenantId, options, logOk) ==
    FacadeStep(CheckWithDetails(Store, auditLog, config, tenantId, options, logOk),
               EvaluateOnStore(Store, tenantId, options),
               "checkWithDetails", tenantId, options)

DoEnforce(tenantId, options, logOk) ==
    FacadeStep(Enforce(Store, auditLog, config, tenantId, options, logOk),
               EvaluateOnStore(Store, tenantId, options),
               "enforce", tenantId, options)

\* a facade operation that loops over check
BatchStep(out, op, tenantId, options) ==
    /\ Len(out.auditLog) <= MaxAudit * MaxBatch
    /\ auditLog' = out.auditLog
    /\ policies' = out.store.policies
    /\ tenantPolicies' = out.store.tenantPolicies
    /\ nextId' = out.store.nextId
    /\ last' = [op |-> op, tenantId |-> tenantId, options |-> options,
                error |-> out.error, ret |-> out.ret,
                entriesBefore |-> Len(auditLog)]
    /\ UNCHANGED <<config, queueVars>>

DoCheckMultiple(tenantId, checks, logOk) ==
    BatchStep(CheckMultiple(Store, auditLog, config, tenantId, checks, logOk),
              "checkMultiple", tenantId, checks)

DoCanAny(tenantId, target, logOk) ==
    BatchStep(CanAny(Store, auditLog, config, tenantId, target, logOk),
              "canAny", tenantId, target)

DoCanAll(tenantId, target, logOk) ==
    BatchStep(CanAll(Store, auditLog, config, tenantId, target, logOk),
              "canAll", tenantId, target)

\* a reader of the audit log leaves the log `out.auditLog`
AuditStep(out, op, arg) ==
    /\ auditLog' = out.auditLog
    /\ last' = [op |-> op, arg |-> arg, ret |-> out.ret]
    /\ UNCHANGED <<policies, tenantPolicies, nextId, config, queueVars>>

DoQueryAuditLog(query) ==
    AuditStep(QueryAuditLog(auditLog, query), "queryAuditLog", query)

DoGetRecentAuditEntries(limit) ==
    AuditStep(GetRecentAuditEntries(auditLog, limit), "getRecentAuditEntries", limit)

DoGetAuditByActor(actorId, limit) ==
    AuditStep(GetAuditByActor(auditLog, actorId, limit), "getAuditByActor",
              <<actorId, limit>>)

DoGetDeniedActions(limit) ==
    AuditStep(GetDeniedActions(auditLog, limit), "getDeniedActions", limit)

DoGetAuditStats(tenantId) ==
    AuditStep(GetAuditStats(auditLog, tenantId), "getAuditStats", tenantId)

DoGetActivityTimeline(options) ==
    AuditStep(GetActivityTimeline(auditLog, options), "getActivityTimeline", options)

DoExportAuditLog(query) ==
    AuditStep(ExportAuditLog(auditLog, query), "exportAuditLog", query)

StoreNext(T, inputs, payloads) ==
    \/ \E t \in T, input \in inputs : DoCreatePolicy(t, input)
    \/ \E t \in T : DoSetupDefaultPolicies(t)
    \/ \E t \in T : DoCreateAgentPolicy(t)
    \/ \E id \in PolicyIds, updates \in payloads : DoUpdatePolicy(id, updates)
    \/ \E id \in PolicyIds : DoEnablePolicy(id)
    \/ \E id \in PolicyIds : DoDisablePolicy(id)
    \/ \E id \in PolicyIds : DoDeletePolicy(id)

FacadeNext(T, requests, logOutcomes) ==
    \E t \in T, options \in requests, logOk \in logOutcomes :
        \/ DoCheck(t, options, logOk)
        \/ DoCheckWithDetails(t, options, logOk)
        \/ DoEnforce(t, options, logOk)

\* One tenant, the in-memory audit logger (its log never fails).
Next ==
    \/ StoreNext({"t1"}, PolicyInputs, UpdateInputs)
    \/ FacadeNext({"t1"}, FacadeRequests, {TRUE})

Spec == Init /\ [][Next]_vars

\* One tenant, an audit logger whose store may be unavailable.
NextAuditFailure ==
    \/ StoreNext({"t1"}, {DocsInput, OpenInput}, UpdateInputs)
    \/ FacadeNext({"t1"}, FacadeRequests, BOOLEAN)

SpecAuditFailure == Init /\ [][NextAuditFailure]_vars

\* Two tenants.
NextTenants ==
    \/ StoreNext(Tenants, {OpenInput, GuardInput}, UpdateInputs)
    \/ FacadeNext(Tenants, {ReqAgentUser}, {TRUE})

SpecTenants == Init /\ [][NextTenants]_vars

\* Callers that hand over conditions with an operator outside the union
\* type, at creation and in an update of the rules.
NextUnknownOperator ==
    \/ StoreNext({"t1"}, {DocsInput, RegexInput}, {[rules |-> RegexRules]})
    \/ FacadeNext({"t1"}, FacadeRequests, {TRUE})

SpecUnknownOperator == Init /\ [][NextUnknownOperator]_vars

BatchNext(T, batches, targets, logOutcomes) ==
    \/ \E t \in T, checks \in batches, logOk \in logOutcomes :
          DoCheckMultiple(t, checks, logOk)
    \/ \E t \in T, target \in targets, logOk \in logOutcomes :
          DoCanAny(t, target, logOk)
    \/ \E t \in T, target \in targets, logOk \in logOutcomes :
          DoCanAll(t, target, logOk)

\* One tenant, the in-memory audit logger, the operations that loop over
\* check: batches of up to MaxBatch requests, two of which differ in their
\* context alone, and lists of up to MaxBatch actions.
ReqUserDocReadPlain ==
    Request(<<"u", "1">>, "user", <<"d", "o", "c", ":", "4", "2">>, "read")

BatchRequests == {ReqUserDocRead, ReqUserDocReadPlain, ReqAgentTask}

SeqsUpTo(S, n) == UNION {[1..k -> S] : k \in 0..n}

Batches == SeqsUpTo(BatchRequests, MaxBatch)

Target(actorId, actorType, resource, actions) ==
    [actorId |-> actorId, actorType |-> actorType, resource |-> resource,
     actions |-> actions]

Targets ==
    {Target(<<"a", "1">>, "agent", <<"t", "a", "s", "k", ":", "1">>, actions) :
        actions \in SeqsUpTo({"read", "delete"}, MaxBatch)}

\* The store is the seeded one, with either built-in policy on or off.
NextBatch ==
    \/ DoSetupDefaultPolicies("t1")
    \/ \E id \in PolicyIds : DoDisablePolicy(id)
    \/ \E id \in PolicyIds : DoEnablePolicy(id)
    \/ BatchNext({"t1"}, Batches, Targets, {TRUE})

SpecBatch == Init /\ [][NextBatch]_vars

\* One tenant, requests that all carry the context {role: "admin"}.
ReqUserPolicyAdmin ==
    WithContext(Request(<<"u", "2">>, "user", <<"p", "o", "l", "i", "c", "y", ":", "1">>,
                        "admin"),
                RoleAdmin)
ReqAgentTaskAsAdmin == WithContext(ReqAgentTask, RoleAdmin)

AdminRequests == {ReqUserDocRead, ReqUserPolicyAdmin, ReqAgentTaskAsAdmin}

NextAdmin ==
    \/ StoreNext({"t1"}, {OpenInput}, UpdateInputs)
    \/ FacadeNext({"t1"}, AdminRequests, {TRUE})

SpecAdmin == Init /\ [][NextAdmin]_vars

\* One tenant, update payloads as they arrive at run time: the parameter type
\* of updatePolicy leaves id, tenantId and createdAt out, but an object that
\* has them (a Policy read from the store, a payload from JavaScript) is
\* accepted and spread like any other.
RawUpdateInputs ==
    {[priority |-> 60], [id |-> 0, tenantId |-> "t2", createdAt |-> 0]}

NextRawUpdate ==
    \/ StoreNext({"t1"}, {OpenInput}, RawUpdateInputs)
    \/ FacadeNext({"t1"}, {ReqAgentUser}, {TRUE})

SpecRawUpdate == Init /\ [][NextRawUpdate]_vars

(***************************************************************************)
(* The matcher on its own: the initial state draws a rule and a request,   *)
(* or a pattern and a subject, from bounded sets, and one step applies      *)
(* matchesRule or matchesPattern to them.                                   *)
(***************************************************************************)
DoMatchesRule ==
    /\ last.op = "rule"
    /\ last' = [op |-> "matchesRule", rule |-> last.rule, options |-> last.options,
                ret |-> MatchesRule(last.rule, last.options)]
    /\ UNCHANGED <<policies, tenantPolicies, nextId, config, auditLog, queueVars>>

DoMatchesPattern ==
    /\ last.op = "pattern"
    /\ last' = [op |-> "matchesPattern", pattern |-> last.pattern,
                value |-> last.value,
                ret |-> MatchesPattern(last.pattern, last.value)]
    /\ UNCHANGED <<policies, tenantPolicies, nextId, config, auditLog, queueVars>>

ActorLists ==
    {<<>>,
     <<[type |-> "user", pattern |-> AnyPattern]>>,
     <<[type |-> "agent", pattern |-> <<"a", "*">>]>>,
     <<[type |-> "*", pattern |-> <<"u", "1">>]>>,
     <<[type |-> "agent", pattern |-> <<"a", "*">>],
       [type |-> "user", pattern |-> AnyPattern]>>}

ResourceLists ==
    {<<>>,
     << <<"d", "o", "c", ":", "*">> >>,
     << <<"t", "a", "s", "k", ":", "*">>, <<"d", "o", "c", ":", "4", "2">> >>,
     <<AnyPattern>>}

ActionListsOfRules == {<<>>, <<"read">>, <<"*">>, <<"update", "read">>}

RoleIsAdmin ==
    [field |-> "role", operator |-> "eq", value |-> Str(<<"a", "d", "m", "i", "n">>)]
LevelAboveOne == [field |-> "level", operator |-> "gt", value |-> Num(1)]

ConditionLists == {<<>>, <<RoleIsAdmin>>, <<RoleIsAdmin, LevelAboveOne>>}

MatcherRules ==
    {[effect |-> "allow", actors |-> a, resources |-> r, actions |-> x,
      conditions |-> c] :
        a \in ActorLists, r \in ResourceLists, x \in ActionListsOfRules,
        c \in ConditionLists}

MatcherContexts ==
    {RoleAdmin,
     [k \in {"role", "level"} |->
        IF k = "role" THEN Str(<<"a", "d", "m", "i", "n">>) ELSE Num(2)],
     [k \in {"role"} |-> Str(<<"g", "u", "e", "s", "t">>)],
     [k \in {"level"} |-> Num(2)]}

MatcherActors ==
    {[actorId |-> <<"u", "1">>, actorType |-> "user"],
     [actorId |-> <<"a", "1">>, actorType |-> "agent"],
     [actorId |-> <<"u", "1">>, actorType |-> "service"]}

MatcherRequests ==
    LET plain == {Request(a.actorId, a.actorType, r, x) :
                     a \in MatcherActors,
                     r \in {<<"d", "o", "c", ":", "4", "2">>,
                            <<"t", "a", "s", "k", ":", "1">>},
                     x \in {"read", "delete"}}
    IN  plain \cup {WithContext(req, c) : req \in plain, c \in MatcherContexts}

\* patterns and subjects of up to MaxPatternLen characters, and the named ones
PatternAlphabet == {"a", ".", "*"}
SubjectAlphabet == {"a", ".", "\n"}

TaskAny == <<"t", "a", "s", "k", ":", "*">>

NamedSubjects ==
    {<<"t", "a", "s", "k", ":">>,
     <<"t", "a", "s", "k", ":", "1", "2", "3">>,
     <<"t", "a", "s", "k", ":", "1", "2", "3", ":", "s", "u", "b">>,
     <<"t", "a", "s", "k">>,
     <<"t", "a", "s", "k", "s", ":", "1">>,
     <<"x", "t", "a", "s", "k", ":", "1">>,
     <<"o", "t", "h", "e", "r", ":", "t", "a", "s", "k", ":", "1">>}

MatcherPatterns == SeqsUpTo(PatternAlphabet, MaxPatternLen) \cup {TaskAny}

MatcherSubjects == SeqsUpTo(SubjectAlphabet, MaxPatternLen) \cup NamedSubjects

InitMatcher ==
    /\ policies = EmptyStore.policies
    /\ tenantPolicies = EmptyStore.tenantPolicies
    /\ nextId = EmptyStore.nextId
    /\ config = [defaultDeny |-> TRUE, auditAll |-> TRUE]
    /\ auditLog = <<>>
    /\ taskQueue = NewTaskQueue(NoOptions)
    /\ handling = <<>>
    /\ \/ \E rule \in MatcherRules, options \in MatcherRequests :
             last = [op |-> "rule", rule |-> rule, options |-> options]
       \/ \E pattern \in MatcherPatterns, value \in MatcherSubjects :
             last = [op |-> "pattern", pattern |-> pattern, value |-> value]

NextMatcher == DoMatchesRule \/ DoMatchesPattern

SpecMatcher == InitMatcher /\ [][NextMatcher]_vars

(***************************************************************************)
(* matchesConditions on its own: the initial state draws one condition on  *)
(* the field "score" and a context, or a rule guarded by conditions and a  *)
(* request, and one step applies matchesConditions or matchesRule.         *)
(***************************************************************************)
DoMatchesConditions ==
    /\ last.op = "conditions"
    /\ last' = [op |-> "matchesConditions", conditions |-> last.conditions,
                context |-> last.context,
                ret |-> MatchesConditions(last.conditions, last.context)]
    /\ UNCHANGED <<policies, tenantPolicies, nextId, config, auditLog, queueVars>>

ScoreValues ==
    {Num(5), Num(10), Num(15), NaN, Str(<<"1", "0">>), Str(<<"a">>),
     List(<<Num(10), Str(<<"a">>)>>), List(<<>>), List(<<Undefined>>), Undefined}

ScoreOperators == {"eq", "neq", "in", "nin", "gt", "lt", "contains"}

ScoreConditions ==
    {<<[field |-> "score", operator |-> op, value |-> v]>> :
        op \in ScoreOperators, v \in ScoreValues}

ScoreContexts ==
    {NoContext} \cup {[k \in {"score"} |-> v] : v \in ScoreValues \ {Undefined}}

\* rules open to every actor, resource and action, guarded by conditions
GuardedRules ==
    {[effect |-> "allow",
      actors |-> <<[type |-> "*", pattern |-> AnyPattern]>>,
      resources |-> <<AnyPattern>>,
      actions |-> <<"*">>,
      conditions |-> c \o d] : c, d \in ScoreConditions}

GuardedRequests ==
    {ReqAgentTask, WithContext(ReqAgentTask, [k \in {"score"} |-> Num(10)])}

InitConditions ==
    /\ policies = EmptyStore.policies
    /\ tenantPolicies = EmptyStore.tenantPolicies
    /\ nextId = EmptyStore.nextId
    /\ config = [defaultDeny |-> TRUE, auditAll |-> TRUE]
    /\ auditLog = <<>>
    /\ taskQueue = NewTaskQueue(NoOptions)
    /\ handling = <<>>
    /\ \/ \E conditions \in ScoreConditions, context \in ScoreContexts :
             last = [op |-> "conditions", conditions |-> conditions,
                     context |-> context]
       \/ \E rule \in GuardedRules, options \in GuardedRequests :
             last = [op |-> "rule", rule |-> rule, options |-> options]

NextConditions == DoMatchesConditions \/ DoMatchesRule

SpecConditions == InitConditions /\ [][NextConditions]_vars

\* One tenant, requests of an agent.
ReqAgentTaskDelete ==
    Request(<<"a", "1">>, "agent", <<"t", "a", "s", "k", ":", "1">>, "delete")

AgentRequests == {ReqAgentTask, ReqAgentUser, ReqAgentTaskDelete}

AgentResources ==
    {<<"t", "a", "s", "k", ":", "1">>, <<"m", "e", "m", "o", "r", "y", ":">>,
     <<"v", "a", "u", "l", "t", ":", "k", ":", "1">>, <<"u", "s", "e", "r", ":", "1">>,
     <<"t", "e", "n", "a", "n", "t", ":", "t", "1">>,
     <<"p", "o", "l", "i", "c", "y", ":", "1">>, <<"d", "o", "c", ":", "4", "2">>,
     <<"t", "a", "s", "k">>}

AllActions == {"create", "read", "update", "delete", "execute", "admin", "*"}

AgentRequestSpace ==
    {Request(id, "agent", r, x) :
        id \in {<<"a", "1">>, <<"b", "o", "t">>}, r \in AgentResources,
        x \in AllActions}

NextAgent ==
    \/ StoreNext({"t1"}, {OpenInput}, UpdateInputs)
    \/ FacadeNext({"t1"}, AgentRequests, {TRUE})

SpecAgent == Init /\ [][NextAgent]_vars

\* One tenant whose built-in policies are set up up to MaxSetupCalls times
\* (the constructor of JarvisClient makes the first call), then disabled or
\* deleted, and checked against.
SeededIds == 1..(2 * MaxSetupCalls)

NextSeeding ==
    \/ SetupWithin("t1", 2 * MaxSetupCalls)
    \/ \E id \in SeededIds : DoDisablePolicy(id)
    \/ \E id \in SeededIds : DoDeletePolicy(id)
    \/ DoCheckWithDetails("t1", ReqUserDocRead, TRUE)

SpecSeeding == Init /\ [][NextSeeding]_vars

\* One tenant, lookups by id and updates of priority, enabled flag and rules.
UpdatePayloads == {[priority |-> 60], [enabled |-> FALSE], [rules |-> GuardRules]}

NextUpdates ==
    \/ \E input \in {OpenInput, GuardInput} : DoCreatePolicy("t1", input)
    \/ \E id \in PolicyIds : DoGetPolicy(id)
    \/ \E id \in PolicyIds, updates \in UpdatePayloads : DoUpdatePolicy(id, updates)
    \/ \E id \in PolicyIds : DoEnablePolicy(id)
    \/ \E id \in PolicyIds : DoDisablePolicy(id)
    \/ \E id \in PolicyIds : DoDeletePolicy(id)

SpecUpdates == Init /\ [][NextUpdates]_vars

(***************************************************************************)
(* The TaskQueue's state machine.  processNext is two steps: up to its     *)
(* await of the handler, and from the handler's settling on; other calls   *)
(* may come in between.                                                    *)
(***************************************************************************)
TaskIds == {"k1", "k2"}

Agents == {"a1", "a2"}

Priorities == DOMAIN PRIORITY_VALUES

Task(id, agentId, priority) ==
    [id |-> id, agentId |-> agentId, priority |-> priority,
     status |-> "pending", result |-> NoResult]

TaskInputs ==
    {Task(id, agentId, priority) :
        id \in TaskIds, agentId \in {NoAgent, "a1"}, priority \in Priorities}

HandlerOutcomes ==
    {[resolved |-> TRUE, isError |-> FALSE, message |-> ""],
     [resolved |-> FALSE, isError |-> TRUE, message |-> "boom"],
     [resolved |-> FALSE, isError |-> FALSE, message |-> ""]}

InitQueue ==
    /\ policies = EmptyStore.policies
    /\ tenantPolicies = EmptyStore.tenantPolicies
    /\ nextId = EmptyStore.nextId
    /\ config = [defaultDeny |-> TRUE, auditAll |-> TRUE]
    /\ auditLog = <<>>
    /\ taskQueue =
          NewTaskQueue([maxSize |-> MaxQueueSize, maxConcurrent |-> MaxConcurrency])
    /\ handling = <<>>
    /\ last = [op |-> "construct"]

\* the queue operation leaves the queue `out.tq`
QueueStep(out, op, arg) ==
    /\ taskQueue' = out.tq
    /\ last' = [op |-> op, arg |-> arg, ret |-> out.ret]
    /\ UNCHANGED <<policies, tenantPolicies, nextId, config, auditLog, handling>>

DoEnqueue(task) == QueueStep(Enqueue(taskQueue, task), "enqueue", task.id)

DoDequeue == QueueStep(Dequeue(taskQueue), "dequeue", NoAgent)

DoDequeueForAgent(agentId) ==
    QueueStep(DequeueForAgent(taskQueue, agentId), "dequeueForAgent", agentId)

DoComplete(taskId) ==
    QueueStep(Complete(taskQueue, taskId, [success |-> TRUE]), "complete", taskId)

DoFail(taskId) == QueueStep(Fail(taskQueue, taskId, "boom"), "fail", taskId)

DoCancel(taskId) == QueueStep(Cancel(taskQueue, taskId), "cancel", taskId)

DoClear == QueueStep(Clear(taskQueue), "clear", NoAgent)

DoPrioritize(taskId, newPriority) ==
    QueueStep(Prioritize(taskQueue, taskId, newPriority), "prioritize", taskId)

DoRegisterHandler(agentId) ==
    QueueStep(RegisterHandler(taskQueue, agentId), "registerHandler", agentId)

\* processNext runs to its await (the handler has the task) or returns null
DoProcessNext(agentId) ==
    LET out == ProcessNextStart(taskQueue, agentId)
    IN  /\ Len(handling) < MaxHandling
        /\ taskQueue' = out.tq
        /\ handling' =
              IF out.started
              THEN Append(handling, [agentId |-> agentId, task |-> out.ret])
              ELSE handling
        /\ last' = [op |-> IF out.started THEN "handler" ELSE "processNext",
                    arg |-> agentId, ret |-> out.ret]
        /\ UNCHANGED <<policies, tenantPolicies, nextId, config, auditLog>>

\* the handler of the i-th waiting processNext settles and the call returns
DoHandlerSettles(i, outcome) ==
    /\ i \in 1..Len(handling)
    /\ LET out == ProcessNextEnd(taskQueue, handling[i].task.id, outcome)
       IN  /\ taskQueue' = out.tq
           /\ handling' = SpliceOut(handling, i - 1)
           /\ last' = [op |-> "processNext", arg |-> handling[i].agentId,
                       ret |-> out.ret]
    /\ UNCHANGED <<policies, tenantPolicies, nextId, config, auditLog>>

QueueNext(tasks, agents, priorities) ==
    \/ \E task \in tasks : DoEnqueue(task)
    \/ DoDequeue
    \/ \E agentId \in agents : DoDequeueForAgent(agentId)
    \/ \E taskId \in TaskIds : DoCancel(taskId)
    \/ \E taskId \in TaskIds, priority \in priorities : DoPrioritize(taskId, priority)

ProcessingNext(agents, outcomes) ==
    \/ \E taskId \in TaskIds : DoComplete(taskId)
    \/ \E taskId \in TaskIds : DoFail(taskId)
    \/ DoClear
    \/ \E agentId \in agents : DoRegisterHandler(agentId)
    \/ \E agentId \in agents : DoProcessNext(agentId)
    \/ \E i \in 1..MaxHandling, outcome \in outcomes : DoHandlerSettles(i, outcome)

\* The waiting queue: tasks of every priority, for two agents and for none.
NextQueue == QueueNext(TaskInputs, Agents, Priorities)

SpecQueue == InitQueue /\ [][NextQueue]_vars

\* The tasks in processing: tasks of one priority, one agent with a handler.
UrgentTasks ==
    {Task(id, agentId, priority) :
        id \in TaskIds, agentId \in {NoAgent, "a1"}, priority \in {"p0"}}

NextProcessing ==
    \/ QueueNext(UrgentTasks, {"a1"}, {"p0"})
    \/ ProcessingNext({"a1"}, HandlerOutcomes)

SpecProcessing == InitQueue /\ [][NextProcessing]_vars

\* One tenant, checks that write the audit log and the readers of the log.
AuditQueries ==
    {NoOptions, [result |-> "denied"], [actorId |-> <<"a", "1">>, limit |-> 1],
     [offset |-> 1]}

Limits == {Undefined, Num(1)}

TimelineOptions == {[bucketMinutes |-> 1], [bucketMinutes |-> 2, actorId |-> <<"u", "1">>]}

AuditNext(queries, limits, timelines) ==
    \/ \E query \in queries : DoQueryAuditLog(query)
    \/ \E limit \in limits : DoGetRecentAuditEntries(limit)
    \/ \E limit \in limits : DoGetAuditByActor(<<"a", "1">>, limit)
    \/ \E limit \in limits : DoGetDeniedActions(limit)
    \/ \E t \in {NoTenant, "t1"} : DoGetAuditStats(t)
    \/ \E options \in timelines : DoGetActivityTimeline(options)
    \/ \E query \in queries : DoExportAuditLog(query)

NextAudit ==
    \/ DoCreatePolicy("t1", DocsInput)
    \/ \E options \in FacadeRequests : DoCheck("t1", options, TRUE)
    \/ \E options \in FacadeRequests : DoCheckMultiple("t1", <<options>>, TRUE)
    \/ AuditNext(AuditQueries, Limits, TimelineOptions)

SpecAudit == Init /\ [][NextAudit]_vars

(***************************************************************************)
(* Vocabulary of the properties.                                           *)
(***************************************************************************)
FacadeOps == {"check", "checkWithDetails", "enforce"}

\* the policies the primary map holds for a tenant
PolicyIdsOf(t) == {id \in DOMAIN policies : policies[id].tenantId = t}

EnabledIdsOf(t) == {id \in PolicyIdsOf(t) : policies[id].enabled}

RuleIndexes(id) == 0..(Len(policies[id].rules) - 1)

RuleMatchesAt(id, i, req) == MatchesRule(policies[id].rules[i + 1], req)

HasMatchingRule(id, req) == \E i \in RuleIndexes(id) : RuleMatchesAt(id, i, req)

\* the enabled policies of the tenant that have a rule matching the request
Candidates(t, req) == {id \in EnabledIdsOf(t) : HasMatchingRule(id, req)}

\* the verdict the last facade call was about, on the store as it is now
\* (the facade leaves the store alone and every store call replaces last)
LastVerdict == Evaluate(Store, last.tenantId, last.options)

LastEntry == auditLog[Len(auditLog)]

(***************************************************************************)
(* C1: evaluate returns the outcome of the first matching rule (in array   *)
(* order) of the highest-priority enabled policy of the tenant that has a  *)
(* matching rule: allowed is true exactly when that rule's effect is       *)
(* allow, matchedPolicy is the policy's id, matchedRule the rule's         *)
(* zero-based index; neither a policy of lower priority nor a later rule   *)
(* of the same policy changes the outcome.  checkWithDetails returns that  *)
(* result.                                                                 *)
(***************************************************************************)
C1_FirstMatchWins ==
    /\ \A t \in Tenants, req \in Requests :
          LET r == Evaluate(Store, t, req)
              cands == Candidates(t, req)
          IN  IF cands = {}
              THEN r.matchedPolicy = NoMatch /\ r.matchedRule = NoMatch /\ ~r.allowed
              ELSE /\ r.matchedPolicy \in cands
                   /\ \A c \in cands :
                         policies[c].priority <= policies[r.matchedPolicy].priority
                   /\ r.matchedRule \in RuleIndexes(r.matchedPolicy)
                   /\ RuleMatchesAt(r.matchedPolicy, r.matchedRule, req)
                   /\ \A j \in RuleIndexes(r.matchedPolicy) :
                         j < r.matchedRule => ~RuleMatchesAt(r.matchedPolicy, j, req)
                   /\ r.allowed =
                         (policies[r.matchedPolicy].rules[r.matchedRule + 1].effect
                            = "allow")
    /\ last.op = "checkWithDetails" => last.ret = LastVerdict

\* checkWithDetails has answered from the first rule of the top policy while
\* a later rule of that policy and a policy of lower priority match too.
C1_Witness ==
    /\ last.op = "checkWithDetails"
    /\ last.ret.matchedPolicy \in DOMAIN policies
    /\ last.ret.matchedRule = 0
    /\ ~last.ret.allowed
    /\ \E j \in RuleIndexes(last.ret.matchedPolicy) :
          /\ j > 0
          /\ RuleMatchesAt(last.ret.matchedPolicy, j, last.options)
          /\ policies[last.ret.matchedPolicy].rules[j + 1].effect = "allow"
    /\ \E c \in Candidates(last.tenantId, last.options) :
          policies[c].priority < policies[last.ret.matchedPolicy].priority

(***************************************************************************)
(* C2: when the tenant has an enabled policy and no rule of any enabled    *)
(* policy matches, evaluate denies with the reason "No matching policy     *)
(* rule (default deny)" and check returns false, whatever defaultDeny is.  *)
(***************************************************************************)
C2_DefaultDeny ==
    /\ \A t \in Tenants, req \in Requests :
          (EnabledIdsOf(t) # {} /\ Candidates(t, req) = {})
            => /\ ~Evaluate(Store, t, req).allowed
               /\ Evaluate(Store, t, req).reason = ReasonDefaultDeny
               /\ Check(Store, auditLog, config, t, req, TRUE).ret = FALSE
    /\ (/\ last.op = "check"
        /\ EnabledIdsOf(last.tenantId) # {}
        /\ Candidates(last.tenantId, last.options) = {})
          => /\ last.ret = FALSE
             /\ LastEntry.result = "denied"
             /\ LastEntry.details.reason = ReasonDefaultDeny

\* check has denied by default under defaultDeny = false.
C2_Witness ==
    /\ ~config.defaultDeny
    /\ last.op = "check"
    /\ last.ret = FALSE
    /\ EnabledIdsOf(last.tenantId) # {}
    /\ Candidates(last.tenantId, last.options) = {}
    /\ LastEntry.details.reason = ReasonDefaultDeny

(***************************************************************************)
(* C3: when the tenant has no enabled policy (none at all, all deleted or  *)
(* all disabled), check returns false and the evaluator's reason is "No    *)
(* policies defined".                                                      *)
(***************************************************************************)
C3_NoPolicies ==
    /\ \A t \in Tenants, req \in Requests :
          EnabledIdsOf(t) = {}
            => /\ Evaluate(Store, t, req).reason = ReasonNoPolicies
               /\ Check(Store, auditLog, config, t, req, TRUE).ret = FALSE
    /\ (last.op = "check" /\ EnabledIdsOf(last.tenantId) = {})
          => /\ last.ret = FALSE
             /\ LastEntry.result = "denied"
             /\ LastEntry.details.reason = ReasonNoPolicies

\* check has denied for a tenant whose only policy, which would allow the
\* request, is disabled.
C3_Witness ==
    /\ last.op = "check"
    /\ last.ret = FALSE
    /\ EnabledIdsOf(last.tenantId) = {}
    /\ \E id \in PolicyIdsOf(last.tenantId) :
          /\ HasMatchingRule(id, last.options)
          /\ policies[id].rules[1].effect = "allow"
    /\ LastEntry.details.reason = ReasonNoPolicies

(***************************************************************************)
(* C4: a disabled policy takes no part in evaluation: evaluate never       *)
(* reports a disabled policy as matchedPolicy, and its result is the one   *)
(* it gives once every disabled policy of the tenant has been deleted.     *)
(***************************************************************************)
RECURSIVE DeleteAll(_, _)
DeleteAll(st, ids) ==
    IF ids = {} THEN st
    ELSE LET id == CHOOSE x \in ids : TRUE
         IN  DeleteAll(DeletePolicy(st, id), ids \ {id})

WithoutDisabled(t) == DeleteAll(Store, PolicyIdsOf(t) \ EnabledIdsOf(t))

C4_DisabledExcluded ==
    /\ \A t \in Tenants, req \in Requests :
          LET r == Evaluate(Store, t, req)
          IN  /\ r.matchedPolicy # NoMatch => policies[r.matchedPolicy].enabled
              /\ r = Evaluate(WithoutDisabled(t), t, req)
    /\ last.op = "checkWithDetails"
          => /\ last.ret.matchedPolicy # NoMatch
                   => policies[last.ret.matchedPolicy].enabled
             /\ last.ret = Evaluate(WithoutDisabled(last.tenantId),
                                    last.tenantId, last.options)

\* checkWithDetails has answered while a disabled policy of higher priority
\* holds a matching rule of the opposite effect.
C4_Witness ==
    /\ last.op = "checkWithDetails"
    /\ last.ret.matchedPolicy \in DOMAIN policies
    /\ \E id \in PolicyIdsOf(last.tenantId) :
          /\ ~policies[id].enabled
          /\ policies[id].priority > policies[last.ret.matchedPolicy].priority
          /\ RuleMatchesAt(id, 0, last.options)
          /\ (policies[id].rules[1].effect = "allow") # last.ret.allowed

(***************************************************************************)
(* C5: when the tenant holds the seeded agent policy (priority 50,         *)
(* enabled) and every other policy of the tenant has a strictly lower      *)
(* priority, check returns false for every request of an agent on a        *)
(* resource matching user:*, even if a lower-priority policy has an allow  *)
(* rule matching the request.                                              *)
(***************************************************************************)
IsSeededAgentPolicy(id) ==
    /\ policies[id].name = "Agent Default Access"
    /\ policies[id].rules = AgentRules
    /\ policies[id].priority = 50
    /\ policies[id].enabled

AgentOnUser(req) ==
    /\ req.actorType = "agent"
    /\ MatchesPattern(<<"u", "s", "e", "r", ":", "*">>, req.resource)

AgentPolicyOnTop(t) ==
    \E id \in PolicyIdsOf(t) :
        /\ IsSeededAgentPolicy(id)
        /\ \A other \in PolicyIdsOf(t) \ {id} : policies[other].priority < 50

C5_AgentDeniedOnUser ==
    /\ \A t \in Tenants, req \in Requests :
          (AgentOnUser(req) /\ AgentPolicyOnTop(t))
            => Check(Store, auditLog, config, t, req, TRUE).ret = FALSE
    /\ (/\ last.op = "check"
        /\ AgentOnUser(last.options)
        /\ AgentPolicyOnTop(last.tenantId))
          => last.ret = FALSE

\* check has denied an agent's request on user:1 although an enabled policy
\* of lower priority allows it.
C5_Witness ==
    /\ last.op = "check"
    /\ last.ret = FALSE
    /\ AgentOnUser(last.options)
    /\ AgentPolicyOnTop(last.tenantId)
    /\ \E c \in Candidates(last.tenantId, last.options) :
          /\ policies[c].priority < 50
          /\ policies[c].rules[1].effect = "allow"
          /\ RuleMatchesAt(c, 0, last.options)

(***************************************************************************)
(* C6: check and checkWithDetails append exactly one audit entry when      *)
(* auditAll is true or the verdict is denied, and none otherwise; the      *)
(* entry carries the request and the result "denied" for a denial,         *)
(* "success" for an allow.                                                 *)
(***************************************************************************)
C6_AuditPolicy ==
    last.op \in {"check", "checkWithDetails"}
      => LET verdict == LastVerdict
             wanted == config.auditAll \/ ~verdict.allowed
         IN  /\ Len(auditLog) = last.entriesBefore + (IF wanted THEN 1 ELSE 0)
             /\ wanted
                   => /\ LastEntry.result =
                           (IF verdict.allowed THEN "success" ELSE "denied")
                      /\ LastEntry.tenantId = last.tenantId
                      /\ LastEntry.actorId = last.options.actorId
                      /\ LastEntry.actorType = last.options.actorType
                      /\ LastEntry.action = last.options.action
                      /\ LastEntry.resource = last.options.resource
                      /\ LastEntry.details.reason = verdict.reason

\* under auditAll = false a denied check has left one entry "denied".
C6_Witness ==
    /\ ~config.auditAll
    /\ last.op = "check"
    /\ last.ret = FALSE
    /\ Len(auditLog) = last.entriesBefore + 1
    /\ LastEntry.result = "denied"

(***************************************************************************)
(* C7: a failure of the audit write does not reach the caller of check,    *)
(* checkWithDetails or enforce: the call ends as the evaluator's verdict   *)
(* alone decides.                                                          *)
(***************************************************************************)
C7_AuditFailureIsolated ==
    last.op \in FacadeOps
      => /\ last.error # AuditWriteFailure
         /\ last.op = "check" => last.ret = LastVerdict.allowed
         /\ last.op = "checkWithDetails" => last.ret = LastVerdict
         /\ last.op = "enforce" => ((last.error = NoError) = LastVerdict.allowed)

(***************************************************************************)
(* C8: list(t) returns only policies whose tenantId is t, and evaluate(t,  *)
(* request) gives what it gives on the store cut down to tenant t's own    *)
(* policies, so the policies of other tenants have no part in it.          *)
(***************************************************************************)
RestrictedTo(t) ==
    [policies |-> [id \in PolicyIdsOf(t) |-> policies[id]],
     tenantPolicies |-> [u \in DOMAIN tenantPolicies \cap {t} |-> tenantPolicies[u]],
     nextId |-> nextId,
     ret |-> Null]

C8_TenantIsolation ==
    /\ \A t \in Tenants :
          LET listed == ListPolicies(Store, t)
          IN  /\ \A i \in 1..Len(listed) : listed[i].tenantId = t
              /\ \A req \in Requests :
                    Evaluate(Store, t, req) = Evaluate(RestrictedTo(t), t, req)
    /\ last.op = "checkWithDetails"
          => last.ret = Evaluate(RestrictedTo(last.tenantId),
                                 last.tenantId, last.options)

\* checkWithDetails has answered for a tenant that has policies while
\* another tenant's policies give the same request the opposite verdict.
C8_Witness ==
    /\ last.op = "checkWithDetails"
    /\ PolicyIdsOf(last.tenantId) # {}
    /\ \E u \in Tenants \ {last.tenantId} :
          /\ Candidates(u, last.options) # {}
          /\ Evaluate(Store, u, last.options).allowed # last.ret.allowed

(***************************************************************************)
(* C9: a rule carrying a condition whose operator is not one of eq, neq,   *)
(* in, nin, gt, lt, contains matches no request.                           *)
(***************************************************************************)
KnownOperators == {"eq", "neq", "in", "nin", "gt", "lt", "contains"}

HasUnknownOperator(rule) ==
    \E i \in 1..Len(rule.conditions) :
        rule.conditions[i].operator \notin KnownOperators

C9_UnknownOperatorNeverMatches ==
    last.op \in FacadeOps
      => \A id \in DOMAIN policies :
            \A i \in RuleIndexes(id) :
                HasUnknownOperator(policies[id].rules[i + 1])
                  => ~RuleMatchesAt(id, i, last.options)

(***************************************************************************)
(* C10: createPolicy, and updatePolicy of the rules, reject a condition    *)
(* with an unsupported operator, so no stored policy carries one.          *)
(***************************************************************************)
C10_RejectedAtCreation ==
    \A id \in DOMAIN policies :
        \A i \in RuleIndexes(id) : ~HasUnknownOperator(policies[id].rules[i + 1])

(***************************************************************************)
(* C11 (as stated): when the tenant's only enabled policy is the built-in  *)
(* admin policy, check returns true for every request whose context has    *)
(* role = "admin", whatever its resource, action, actor id and actor type. *)
(***************************************************************************)
IsSeededAdminPolicy(id) ==
    /\ policies[id].name = "Admin Full Access"
    /\ policies[id].rules = AdminRules

OnlyAdminEnabled(t) ==
    \E id \in PolicyIdsOf(t) : EnabledIdsOf(t) = {id} /\ IsSeededAdminPolicy(id)

HasAdminRole(req) ==
    /\ req.hasContext
    /\ "role" \in DOMAIN req.context
    /\ req.context.role = Str(<<"a", "d", "m", "i", "n">>)

C11_AdminAllowsEveryActor ==
    /\ \A t \in Tenants, req \in AdminRequests :
          (OnlyAdminEnabled(t) /\ HasAdminRole(req))
            => Check(Store, auditLog, config, t, req, TRUE).ret = TRUE
    /\ (/\ last.op = "check"
        /\ OnlyAdminEnabled(last.tenantId)
        /\ HasAdminRole(last.options))
          => last.ret = TRUE

(***************************************************************************)
(* C11 (amended): when the tenant's only enabled policy is the built-in    *)
(* admin policy, check returns true for every request of an actor of type  *)
(* user whose context has role = "admin", whatever its resource, action    *)
(* and actor id.                                                           *)
(***************************************************************************)
C11_AdminAllowsUsers ==
    /\ \A t \in Tenants, req \in AdminRequests :
          (OnlyAdminEnabled(t) /\ HasAdminRole(req) /\ req.actorType = "user")
            => Check(Store, auditLog, config, t, req, TRUE).ret = TRUE
    /\ (/\ last.op = "check"
        /\ OnlyAdminEnabled(last.tenantId)
        /\ HasAdminRole(last.options)
        /\ last.options.actorType = "user")
          => last.ret = TRUE

\* check has allowed a user with role admin the action admin on policy:1
\* while the admin policy is the only enabled one.
C11_Witness ==
    /\ last.op = "check"
    /\ last.ret = TRUE
    /\ last.options = ReqUserPolicyAdmin
    /\ OnlyAdminEnabled(last.tenantId)

(***************************************************************************)
(* C12: update of an existing policy, whatever the payload, leaves the     *)
(* policy's id, tenantId and createdAt as they were, in the stored and in  *)
(* the returned policy, and leaves the policy indexed under its tenant.    *)
(***************************************************************************)
IndexedUnder(index, t, id) ==
    /\ t \in DOMAIN index
    /\ \E i \in 1..Len(index[t]) : index[t][i] = id

SameIdentity(p, q) ==
    /\ p.id = q.id
    /\ p.tenantId = q.tenantId
    /\ p.createdAt = q.createdAt

C12_UpdateKeepsIdentity ==
    [][(last'.op = "updatePolicy" /\ last'.arg \in DOMAIN policies)
        => LET id == last'.arg
           IN  /\ id \in DOMAIN policies'
               /\ SameIdentity(policies'[id], policies[id])
               /\ SameIdentity(last'.ret, policies[id])
               /\ IndexedUnder(tenantPolicies', policies'[id].tenantId, id)]_vars

(***************************************************************************)
(* C13: list(tenantId) returns the tenant's policies by priority           *)
(* descending, policies of equal priority in the order of their creation;  *)
(* evaluate takes the earlier created of two matching enabled policies of  *)
(* equal priority; and no create, update or delete of another policy       *)
(* changes the order in which two policies are listed.                     *)
(***************************************************************************)
\* ids are issued in the order of creation
Precedes(p, q) ==
    \/ p.priority > q.priority
    \/ p.priority = q.priority /\ p.id < q.id

PositionIn(listed, id) == CHOOSE i \in 1..Len(listed) : listed[i].id = id

ListedInOrder(t) ==
    LET listed == ListPolicies(Store, t)
    IN  /\ Len(listed) = Cardinality(PolicyIdsOf(t))
        /\ {listed[i].id : i \in 1..Len(listed)} = PolicyIdsOf(t)
        /\ \A i, j \in 1..Len(listed) :
              i < j => Precedes(listed[i], listed[j])

FirstCandidate(t, req) ==
    CHOOSE c \in Candidates(t, req) :
        \A d \in Candidates(t, req) \ {c} : Precedes(policies[c], policies[d])

TieGoesToEarlier ==
    /\ \A t \in Tenants, req \in Requests :
          Candidates(t, req) # {}
            => Evaluate(Store, t, req).matchedPolicy = FirstCandidate(t, req)
    /\ (last.op = "checkWithDetails" /\ Candidates(last.tenantId, last.options) # {})
          => last.ret.matchedPolicy = FirstCandidate(last.tenantId, last.options)

OrderKeptByOthers ==
    \A t \in Tenants :
        \A p, q \in PolicyIdsOf(t) :
            (/\ p # q
             /\ p \in DOMAIN policies' /\ q \in DOMAIN policies'
             /\ policies'[p] = policies[p] /\ policies'[q] = policies[q])
              => LET before == ListPolicies(Store, t)
                     after == ListPolicies(Store', t)
                 IN  (PositionIn(before, p) < PositionIn(before, q))
                        <=> (PositionIn(after, p) < PositionIn(after, q))

StoreAfter ==
    [policies |-> policies', tenantPolicies |-> tenantPolicies',
     nextId |-> nextId', ret |-> Null]

DeleteEffect(id) ==
    /\ last'.ret = (id \in DOMAIN policies)
    /\ GetPolicy(StoreAfter, id) = Null
    /\ \A t \in Tenants :
          LET before == ListPolicies(Store, t)
              after == ListPolicies(StoreAfter, t)
          IN  /\ \A i \in 1..Len(after) : after[i].id # id
              /\ after = SelectSeq(before, LAMBDA p : p.id # id)
              /\ \A req \in Requests :
                    Evaluate(StoreAfter, t, req).matchedPolicy # id
    /\ DOMAIN policies' = DOMAIN policies \ {id}
    /\ \A other \in DOMAIN policies \ {id} :
          GetPolicy(StoreAfter, other) = policies[other]
    /\ DeletePolicy(StoreAfter, id).ret = FALSE

C14_Delete == [][last'.op = "deletePolicy" => DeleteEffect(last'.arg)]_vars

\* delete has removed one policy of a store that held more than one.
C14_Witness ==
    /\ last.op = "deletePolicy"
    /\ last.ret = TRUE
    /\ last.arg \notin DOMAIN policies
    /\ policies # EmptyStore.policies
    /\ \A t \in Tenants :
          \A i \in 1..Len(ListPolicies(Store, t)) :
              ListPolicies(Store, t)[i].id # last.arg

(***************************************************************************)
(* C15: enforce returns exactly when the verdict is allowed and otherwise  *)
(* raises "Permission denied: " followed by the evaluator's reason; it     *)
(* leaves the audit log as one checkWithDetails call on the same request   *)
(* leaves it, so a denied enforce has appended exactly one entry, with the *)
(* result "denied".                                                        *)
(***************************************************************************)
C15_Enforce ==
    last.op = "enforce"
      => LET verdict == LastVerdict
             before == SubSeq(auditLog, 1, last.entriesBefore)
             details ==
                 CheckWithDetails(Store, before, config, last.tenantId,
                                  last.options, TRUE)
         IN  /\ (last.error = NoError) <=> verdict.allowed
             /\ ~verdict.allowed
                   => /\ last.error = <<"Permission denied: ">> \o verdict.reason
                      /\ Len(auditLog) = last.entriesBefore + 1
                      /\ LastEntry.result = "denied"
                      /\ LastEntry.details.reason = verdict.reason
             /\ details.ret = verdict
             /\ auditLog = details.auditLog

\* enforce has raised the denial of a matched deny rule and left one entry.
C15_Witness ==
    /\ last.op = "enforce"
    /\ last.error # NoError
    /\ LastVerdict.matchedPolicy # NoMatch
    /\ last.error = <<"Permission denied: ">> \o LastVerdict.reason
    /\ Len(auditLog) = last.entriesBefore + 1
    /\ LastEntry.result = "denied"

(***************************************************************************)
(* C16: evaluate is read-only and total: in every store state it gives     *)
(* every request a verdict, and the operations that evaluate leave the     *)
(* policy map, the tenant index and every stored policy as they were.      *)
(***************************************************************************)
IsVerdict(r) ==
    /\ r.allowed \in BOOLEAN
    /\ \/ /\ r.matchedPolicy = NoMatch
          /\ r.matchedRule = NoMatch
          /\ ~r.allowed
          /\ r.reason \in {ReasonNoPolicies, ReasonDefaultDeny}
       \/ /\ r.matchedPolicy \in DOMAIN policies
          /\ r.matchedRule \in RuleIndexes(r.matchedPolicy)
          /\ r.reason = ReasonMatched(policies[r.matchedPolicy].name, r.matchedRule)

EvaluateIsTotal ==
    \A t \in Tenants, req \in Requests : IsVerdict(Evaluate(Store, t, req))

EvaluateIsReadOnly ==
    last'.op \in FacadeOps
      => /\ policies' = policies
         /\ tenantPolicies' = tenantPolicies
         /\ nextId' = nextId

C16_EvaluateReadOnlyTotal ==
    /\ []EvaluateIsTotal
    /\ [][EvaluateIsReadOnly]_vars

\* checkWithDetails has evaluated a tenant whose index is not in priority
\* order, so that the list was sorted, and has matched the second created.
C16_Witness ==
    /\ last.op = "checkWithDetails"
    /\ last.tenantId \in DOMAIN tenantPolicies
    /\ tenantPolicies[last.tenantId] = <<1, 2>>
    /\ {1, 2} \subseteq DOMAIN policies
    /\ policies[1].priority < policies[2].priority
    /\ last.ret.matchedPolicy = 2

(***************************************************************************)
(* C17: checkMultiple checks every request of the batch in list order, a   *)
(* denial stops nothing, so the audit log gains the entries of all the     *)
(* requests that are audited, in list order; and the returned map holds,   *)
(* under each request's key, the verdict of that request.                  *)
(***************************************************************************)
\* the verdict of a request on the store as it is now
AllowedNow(t, req) == Evaluate(Store, t, req).allowed

Audited(t, req) == config.auditAll \/ ~AllowedNow(t, req)

\* the entries the audit log gained by the last facade call
Appended == SubSeq(auditLog, last.entriesBefore + 1, Len(auditLog))

\* the indexes 1..n of the requests that are audited, in order
AuditedIndexes(t, reqs, n) ==
    SelectSeq([i \in 1..n |-> i], LAMBDA i : Audited(t, reqs[i]))

AppendedAre(t, reqs, n) ==
    LET expected == AuditedIndexes(t, reqs, n)
    IN  /\ Len(Appended) = Len(expected)
        /\ \A j \in 1..Len(expected) :
              LET req == reqs[expected[j]]
              IN  /\ Appended[j].actorId = req.actorId
                  /\ Appended[j].actorType = req.actorType
                  /\ Appended[j].action = req.action
                  /\ Appended[j].resource = req.resource
                  /\ Appended[j].details.context = DetailContext(req)
                  /\ Appended[j].result =
                        (IF AllowedNow(t, req) THEN "success" ELSE "denied")

BatchInOrder ==
    last.op = "checkMultiple"
      => AppendedAre(last.tenantId, last.options, Len(last.options))

C17_BatchVerdicts ==
    /\ BatchInOrder
    /\ last.op = "checkMultiple"
          => \A k \in 1..Len(last.options) :
                /\ KeyOf(last.options[k]) \in DOMAIN last.ret
                /\ last.ret[KeyOf(last.options[k])]
                      = AllowedNow(last.tenantId, last.options[k])

(***************************************************************************)
(* C18: canAny returns true exactly when some listed action is allowed,    *)
(* canAll exactly when every listed action is allowed; both check the      *)
(* actions in list order and stop at the first allowed (canAny) or the     *)
(* first denied (canAll) one, so that the audit log gains the entries of   *)
(* the actions up to that one and none of a later action.                  *)
(***************************************************************************)
TargetRequests(target) ==
    [i \in 1..Len(target.actions) |->
        ActionRequest(target.actorId, target.actorType, target.resource,
                      target.actions[i])]

\* the number of checks a loop makes that stops at the first verdict stopAt
ChecksMade(t, reqs, stopAt) ==
    LET hits == {i \in 1..Len(reqs) : AllowedNow(t, reqs[i]) = stopAt}
    IN  IF hits = {} THEN Len(reqs)
        ELSE CHOOSE i \in hits : \A j \in hits : i <= j

C18_ShortCircuit ==
    /\ last.op = "canAny"
          => LET reqs == TargetRequests(last.options)
             IN  /\ last.ret =
                       (\E i \in 1..Len(reqs) : AllowedNow(last.tenantId, reqs[i]))
                 /\ AppendedAre(last.tenantId, reqs,
                                ChecksMade(last.tenantId, reqs, TRUE))
    /\ last.op = "canAll"
          => LET reqs == TargetRequests(last.options)
             IN  /\ last.ret =
                       (\A i \in 1..Len(reqs) : AllowedNow(last.tenantId, reqs[i]))
                 /\ AppendedAre(last.tenantId, reqs,
                                ChecksMade(last.tenantId, reqs, FALSE))

\* canAny has returned true at the first of two actions, the second of
\* which is denied, and has left no entry of a denial.
C18_Witness ==
    /\ last.op = "canAny"
    /\ last.ret = TRUE
    /\ Len(last.options.actions) = 2
    /\ AllowedNow(last.tenantId, TargetRequests(last.options)[1])
    /\ ~AllowedNow(last.tenantId, TargetRequests(last.options)[2])
    /\ \A j \in 1..Len(Appended) : Appended[j].result = "success"

(***************************************************************************)
(* C19: a rule matches a request exactly when some actor matcher has the   *)
(* request's actor type or "*" and a pattern matching the actorId, some    *)
(* resource pattern matches the resource, the actions hold "*" or the      *)
(* action, and, when the rule has conditions, each of them holds against   *)
(* the request's context, a missing context counting as the empty map; a   *)
(* rule whose actors, resources or actions are empty matches nothing.      *)
(***************************************************************************)
Elements(seq) == {seq[i] : i \in 1..Len(seq)}

ActorMatched(rule, req) ==
    \E actor \in Elements(rule.actors) :
        /\ actor.type \in {req.actorType, "*"}
        /\ MatchesPattern(actor.pattern, req.actorId)

ResourceMatched(rule, req) ==
    \E pattern \in Elements(rule.resources) : MatchesPattern(pattern, req.resource)

ActionMatched(rule, req) ==
    Elements(rule.actions) \cap {"*", req.action} # {}

ConditionsMet(rule, req) ==
    LET context == IF req.hasContext THEN req.context ELSE [k \in {} |-> Undefined]
    IN  \A condition \in Elements(rule.conditions) : ConditionHolds(condition, context)

C19_RuleMatching ==
    last.op = "matchesRule"
      => /\ last.ret = (/\ ActorMatched(last.rule, last.options)
                        /\ ResourceMatched(last.rule, last.options)
                        /\ ActionMatched(last.rule, last.options)
                        /\ ConditionsMet(last.rule, last.options))
         /\ (\/ last.rule.actors = <<>>
             \/ last.rule.resources = <<>>
             \/ last.rule.actions = <<>>) => ~last.ret

\* a rule with two conditions has matched a request whose context meets
\* both, through the second of its two actor matchers.
C19_Witness ==
    /\ last.op = "matchesRule"
    /\ last.ret = TRUE
    /\ Len(last.rule.conditions) = 2
    /\ Len(last.rule.actors) = 2
    /\ last.options.actorType = "user"

(***************************************************************************)
(* C20: a pattern matches a subject exactly when the whole subject splits  *)
(* so that each "*" of the pattern covers a run of characters, possibly    *)
(* empty, and every other character of the pattern stands for itself;      *)
(* "task:*" matches "task:", "task:123", "task:123:sub" and not "task",    *)
(* "tasks:1", "xtask:1", "other:task:1".                                   *)
(***************************************************************************)
RECURSIVE GlobMatches(_, _)
GlobMatches(p, v) ==
    IF p = <<>> THEN v = <<>>
    ELSE IF Head(p) = "*"
         THEN \E k \in 0..Len(v) : GlobMatches(Tail(p), SubSeq(v, k + 1, Len(v)))
         ELSE /\ v # <<>>
              /\ Head(v) = Head(p)
              /\ GlobMatches(Tail(p), Tail(v))

C20_GlobSemantics ==
    last.op = "matchesPattern"
      => last.ret = GlobMatches(last.pattern, last.value)

(***************************************************************************)
(* C21: a gt (lt) condition holds exactly when the context value and the   *)
(* condition value are both numbers and the context value is strictly      *)
(* greater (less) than the condition value; a missing or non-numeric       *)
(* context value makes it fail.  {score gt 10} fails for 5 and for 10 and  *)
(* holds for 15.                                                           *)
(***************************************************************************)
\* a number that has a place in the order of the numbers
IsOrdered(v) == v.t = "number" /\ ~IsNaN(v)

StrictlyGreater(a, b) == IsOrdered(a) /\ IsOrdered(b) /\ a.n > b.n

LastCondition == last.conditions[1]

LastValue == Lookup(last.context, LastCondition.field)

C21_GreaterLess ==
    last.op = "matchesConditions"
      => /\ LastCondition.operator = "gt"
               => last.ret = StrictlyGreater(LastValue, LastCondition.value)
         /\ LastCondition.operator = "lt"
               => last.ret = StrictlyGreater(LastCondition.value, LastValue)

(***************************************************************************)
(* C22: an in condition holds exactly when its value is a list that        *)
(* contains the context value, a nin condition exactly when its value is a *)
(* list that does not contain it; with a value that is not a list neither  *)
(* holds.                                                                  *)
(***************************************************************************)
IsListWith(list, v) == IsArray(list) /\ Includes(list.l, v)

IsListWithout(list, v) == IsArray(list) /\ ~Includes(list.l, v)

C22_Membership ==
    last.op = "matchesConditions"
      => /\ LastCondition.operator = "in"
               => last.ret = IsListWith(LastCondition.value, LastValue)
         /\ LastCondition.operator = "nin"
               => last.ret = IsListWithout(LastCondition.value, LastValue)

(***************************************************************************)
(* C23: when the seeded agent policy is the tenant's only enabled policy,  *)
(* an agent's request is allowed exactly when its action is read, create,  *)
(* update or execute and its resource matches task:*, memory:* or vault:*; *)
(* on a resource matching user:*, tenant:* or policy:* it is denied by the *)
(* policy's second rule (matchedRule = 1) whatever the action; every other *)
(* request of an agent is denied by default.                               *)
(***************************************************************************)
OnlyAgentEnabled(t) ==
    \E id \in PolicyIdsOf(t) :
        /\ EnabledIdsOf(t) = {id}
        /\ policies[id].name = "Agent Default Access"
        /\ policies[id].rules = AgentRules

MatchesOneOf(patterns, resource) ==
    \E pattern \in patterns : MatchesPattern(pattern, resource)

OpenToAgents ==
    {<<"t", "a", "s", "k", ":", "*">>, <<"m", "e", "m", "o", "r", "y", ":", "*">>,
     <<"v", "a", "u", "l", "t", ":", "*">>}

ClosedToAgents ==
    {<<"u", "s", "e", "r", ":", "*">>, <<"t", "e", "n", "a", "n", "t", ":", "*">>,
     <<"p", "o", "l", "i", "c", "y", ":", "*">>}

AgentVerdict(t, req, r) ==
    LET open == /\ req.action \in {"read", "create", "update", "execute"}
                /\ MatchesOneOf(OpenToAgents, req.resource)
        closed == MatchesOneOf(ClosedToAgents, req.resource)
    IN  /\ r.allowed = open
        /\ open => (r.matchedRule = 0 /\ r.matchedPolicy \in EnabledIdsOf(t))
        /\ closed => (~r.allowed /\ r.matchedRule = 1
                       /\ r.matchedPolicy \in EnabledIdsOf(t))
        /\ (~open /\ ~closed)
              => (/\ ~r.allowed
                  /\ r.matchedPolicy = NoMatch
                  /\ r.reason = ReasonDefaultDeny)

C23_AgentPolicy ==
    /\ \A t \in Tenants, req \in AgentRequestSpace :
          OnlyAgentEnabled(t) => AgentVerdict(t, req, Evaluate(Store, t, req))
    /\ (/\ last.op = "checkWithDetails"
        /\ last.options.actorType = "agent"
        /\ OnlyAgentEnabled(last.tenantId))
          => AgentVerdict(last.tenantId, last.options, last.ret)

\* with only the agent policy enabled, beside a disabled one, delete on
\* task:1 by an agent has been denied by default.
C23_Witness ==
    /\ last.op = "checkWithDetails"
    /\ last.options = ReqAgentTaskDelete
    /\ OnlyAgentEnabled(last.tenantId)
    /\ PolicyIdsOf(last.tenantId) # EnabledIdsOf(last.tenantId)
    /\ last.ret.reason = ReasonDefaultDeny

(***************************************************************************)
(* C24: whatever the calls of setupDefaultPolicies, a tenant holds at most *)
(* one seeded admin policy and at most one seeded agent policy; a seeded   *)
(* policy that was disabled or deleted decides no evaluation.              *)
(***************************************************************************)
SeededAdminIds(t) ==
    {id \in PolicyIdsOf(t) :
        policies[id].name = "Admin Full Access" /\ policies[id].rules = AdminRules}

SeededAgentIds(t) ==
    {id \in PolicyIdsOf(t) :
        policies[id].name = "Agent Default Access" /\ policies[id].rules = AgentRules}

C24_SeededOnce ==
    \A t \in Tenants :
        /\ Cardinality(SeededAdminIds(t)) <= 1
        /\ Cardinality(SeededAgentIds(t)) <= 1
        /\ \A req \in Requests :
              Evaluate(Store, t, req).matchedPolicy \in EnabledIdsOf(t) \cup {NoMatch}

(***************************************************************************)
(* C25: get, update, delete, enablePolicy and disablePolicy on an id that  *)
(* is not in the store return null (false for delete) and leave the policy *)
(* map and the tenant index as they were.                                  *)
(***************************************************************************)
LookupOps ==
    {"getPolicy", "updatePolicy", "enablePolicy", "disablePolicy", "deletePolicy"}

MissedLookup ==
    /\ last'.op \in LookupOps
    /\ last'.arg \notin DOMAIN policies

MissIsValue ==
    /\ last'.ret = (IF last'.op = "deletePolicy" THEN FALSE ELSE Null)
    /\ policies' = policies
    /\ tenantPolicies' = tenantPolicies

C25_MissChangesNothing == [][MissedLookup => MissIsValue]_vars

\* update has missed in a store that holds a policy and left it as it was.
C25_Witness ==
    /\ last.op = "updatePolicy"
    /\ last.ret = Null
    /\ last.arg \notin DOMAIN policies
    /\ DOMAIN policies # {}

(***************************************************************************)
(* C26: the audit log is append-only and its readers are read-only: no     *)
(* check and no query, getRecent, getByActor, getDenied, getStats,         *)
(* getTimeline or export changes or removes a written entry, and a query   *)
(* repeated with the same filters and no write in between returns the      *)
(* same entries.                                                           *)
(***************************************************************************)
IsPrefix(a, b) == Len(a) <= Len(b) /\ SubSeq(b, 1, Len(a)) = a

AuditReaders ==
    {"queryAuditLog", "getRecentAuditEntries", "getAuditByActor",
     "getDeniedActions", "getAuditStats", "getActivityTimeline", "exportAuditLog"}

AppendOnly == IsPrefix(auditLog, auditLog')

ReadOnly == last'.op \in AuditReaders => auditLog' = auditLog

Repeatable ==
    (/\ last.op = "queryAuditLog"
     /\ last'.op = "queryAuditLog"
     /\ last'.arg = last.arg) => last'.ret = last.ret

FieldAbsent == LastCondition.field \notin DOMAIN last.context

OperatorsOf(rule) ==
    {rule.conditions[i].operator : i \in 1..Len(rule.conditions)}

\* undefined is unequal to the value of a neq condition and not a member of
\* the value of a nin condition
AbsentIsOutside(condition) ==
    CASE condition.operator = "neq" -> condition.value # Undefined
      [] condition.operator = "nin" -> ~IsListWith(condition.value, Undefined)
      [] OTHER -> FALSE

NeqOrNin(condition) == condition.operator \in {"neq", "nin"}

\* the conditions of the inputs on which neq and nin are said to hold
ClaimedOf(restricted) ==
    {c[1] : c \in {d \in ScoreConditions :
                      /\ NeqOrNin(d[1])
                      /\ restricted => AbsentIsOutside(d[1])}}

AbsentUnder(claimed) ==
    /\ (last.op = "matchesConditions" /\ FieldAbsent) =>
          /\ (LastCondition.operator = "eq" /\ LastCondition.value # Undefined)
                => ~last.ret
          /\ LastCondition \in claimed => last.ret
    /\ (/\ last.op = "matchesRule"
        /\ ~last.options.hasContext
        /\ \A i \in 1..Len(last.rule.conditions) : last.rule.conditions[i] \in claimed)
          => last.ret

C27_AbsentField == AbsentUnder(ClaimedOf(FALSE))

C27_AbsentFieldUnequal == AbsentUnder(ClaimedOf(TRUE))

\* a rule guarded by a neq and a nin condition has matched a request that
\* supplies no context.
C27_Witness ==
    /\ last.op = "matchesRule"
    /\ ~last.options.hasContext
    /\ OperatorsOf(last.rule) = {"neq", "nin"}
    /\ \A i \in 1..Len(last.rule.conditions) : AbsentIsOutside(last.rule.conditions[i])
    /\ last.ret

(***************************************************************************)
(* C28: after update(id, {priority}), update(id, {enabled}) or             *)
(* update(id, {rules}) the stored policy carries the new value, evaluate   *)
(* and list go by the new priority, enabled flag and rules, and among      *)
(* policies of equal priority the updated policy stays at the position of  *)
(* its creation.                                                           *)
(***************************************************************************)
UpdateOps == {"updatePolicy", "enablePolicy", "disablePolicy"}

\* what the call of the step asked to change
PayloadsOf(op) ==
    CASE op = "enablePolicy" -> {[enabled |-> TRUE]}
      [] op = "disablePolicy" -> {[enabled |-> FALSE]}
      [] OTHER -> UpdatePayloads

NewValuesStored(id) ==
    /\ \E u \in PayloadsOf(last'.op) : last'.ret = Spread(policies[id], u)
    /\ policies'[id] = last'.ret
    /\ \A other \in DOMAIN policies \ {id} : policies'[other] = policies[other]
    /\ DOMAIN policies' = DOMAIN policies

NewValuesUsed ==
    \A t \in Tenants :
        /\ ListedInOrder(t)'
        /\ \A req \in Requests :
              LET verdict == Evaluate(StoreAfter, t, req)
              IN  IF Candidates(t, req)' = {}
                  THEN verdict.matchedPolicy = NoMatch
                  ELSE /\ verdict.matchedPolicy = FirstCandidate(t, req)'
                       /\ \E i \in 0..(Len(policies'[verdict.matchedPolicy].rules) - 1) :
                             /\ verdict.matchedRule = i
                             /\ verdict.allowed =
                                   (policies'[verdict.matchedPolicy].rules[i + 1].effect
                                      = "allow")

TiePositionKept(id) ==
    LET t == policies[id].tenantId
        after == ListPolicies(StoreAfter, t)
    IN  \A q \in PolicyIdsOf(t) \ {id} :
            policies'[q].priority = policies'[id].priority
              => ((PositionIn(after, id) < PositionIn(after, q))
                    <=> (policies[id].createdAt < policies[q].createdAt))

UpdateEffect(id) ==
    id \in DOMAIN policies
      => NewValuesStored(id) /\ NewValuesUsed /\ TiePositionKept(id)

C28_UpdateTakesEffect == [][last'.op \in UpdateOps => UpdateEffect(last'.arg)]_vars

\* the earlier created of two enabled policies has been raised to the
\* priority of the later one and is listed, and decides, before it.
C28_Witness ==
    /\ last.op = "updatePolicy"
    /\ last.ret # Null
    /\ last.ret.name = "open"
    /\ last.ret.priority = 60
    /\ \E q \in EnabledIdsOf("t1") :
          /\ q > last.arg
          /\ policies[q].priority = 60
          /\ policies[last.arg].enabled
          /\ ListPolicies(Store, "t1")[1].id = last.arg
          /\ Evaluate(Store, "t1", ReqAgentUser).matchedPolicy = last.arg
          /\ Evaluate(DeleteAll(Store, {last.arg}), "t1", ReqAgentUser).matchedPolicy = q

(***************************************************************************)
(* C29: the number of tasks in processing never exceeds maxConcurrent;     *)
(* dequeue, dequeueForAgent and processNext return null and leave the      *)
(* queue unchanged when processing is at maxConcurrent; every task handed  *)
(* out leaves processing through one of complete, fail or cancel, and      *)
(* processNext ends with its task completed or failed.                     *)
(***************************************************************************)
WithinConcurrency == ProcessingSize(taskQueue) <= taskQueue.maxConcurrent

AtCapacity == ProcessingSize(taskQueue) >= taskQueue.maxConcurrent

\* processNext has returned after its handler settled
HandlerSettled == Len(handling') < Len(handling)

NothingHandedOutAtCapacity ==
    AtCapacity =>
        /\ last'.op # "handler"
        /\ (last'.op \in {"dequeue", "dequeueForAgent"}
              \/ (last'.op = "processNext" /\ ~HandlerSettled))
              => last'.ret = Null /\ taskQueue' = taskQueue

\* the ids whose task in processing is gone, or replaced, after the step
LeftProcessing ==
    {id \in DOMAIN taskQueue.processing :
        \/ id \notin DOMAIN taskQueue'.processing
        \/ taskQueue'.processing[id] # taskQueue.processing[id]}

LeavesThroughItsCall ==
    LeftProcessing # {} =>
        /\ \/ last'.op \in {"complete", "fail", "cancel"}
           \/ last'.op = "processNext" /\ HandlerSettled
        /\ Cardinality(LeftProcessing) = 1

ProcessNextFinishesItsTask ==
    (last'.op = "processNext" /\ HandlerSettled) =>
        /\ last'.ret # Null
        /\ last'.ret.status \in {"completed", "failed"}
        /\ last'.ret.id \notin DOMAIN taskQueue'.processing

C29_ConcurrencyBound ==
    /\ []WithinConcurrency
    /\ [][NothingHandedOutAtCapacity]_vars
    /\ [][LeavesThroughItsCall]_vars
    /\ [][ProcessNextFinishesItsTask]_vars

(***************************************************************************)
(* C30: the waiting queue is sorted by priority, p0 before p1 before p2    *)
(* before p3, tasks of equal priority in the order in which they were      *)
(* enqueued or re-prioritized; dequeue returns the head of that order; the *)
(* queue never holds more than maxSize tasks, and enqueue on a full queue  *)
(* returns false and changes nothing.                                      *)
(***************************************************************************)
Rank(task) == PRIORITY_VALUES[task.priority]

SortedByPriority ==
    \A i, j \in 1..Len(taskQueue.queue) :
        i < j => Rank(taskQueue.queue[i]) <= Rank(taskQueue.queue[j])

WithinMaxSize == Len(taskQueue.queue) <= taskQueue.maxSize

\* `after` is `before` with x put behind the tasks that do not rank after it
\* and in front of those that do
ArrivedBehindEquals(before, after, x) ==
    \E k \in 0..Len(before) :
        /\ after = SpliceIn(before, k, x)
        /\ \A i \in 1..k : Rank(before[i]) <= Rank(x)
        /\ \A i \in (k + 1)..Len(before) : Rank(before[i]) > Rank(x)

\* `after` is `before` without one of its tasks, the others in their order
OneTaskLess(before, after) ==
    \E k \in 0..(Len(before) - 1) : after = SpliceOut(before, k)

EnqueueArrives ==
    last'.op = "enqueue" =>
        IF Len(taskQueue.queue) >= taskQueue.maxSize
        THEN last'.ret = FALSE /\ taskQueue' = taskQueue
        ELSE /\ last'.ret = TRUE
             /\ \E task \in TaskInputs :
                   /\ task.id = last'.arg
                   /\ ArrivedBehindEquals(taskQueue.queue, taskQueue'.queue,
                                          [task EXCEPT !.status = "queued"])

PrioritizeArrives ==
    (last'.op = "prioritize" /\ last'.ret = TRUE) =>
        \E k \in 1..Len(taskQueue.queue), priority \in Priorities :
            /\ taskQueue.queue[k].id = last'.arg
            /\ ArrivedBehindEquals(SpliceOut(taskQueue.queue, k - 1),
                                   taskQueue'.queue,
                                   [taskQueue.queue[k] EXCEPT !.priority = priority])

DequeueTakesHead ==
    (last'.op = "dequeue" /\ last'.ret # Null) =>
        /\ last'.ret = [Head(taskQueue.queue) EXCEPT !.status = "running"]
        /\ taskQueue'.queue = Tail(taskQueue.queue)
        /\ \A i \in 1..Len(taskQueue.queue) :
              Rank(last'.ret) <= Rank(taskQueue.queue[i])

OthersKeepTheirOrder ==
    last'.op \in {"dequeue", "dequeueForAgent", "cancel"} =>
        \/ taskQueue'.queue = taskQueue.queue
        \/ OneTaskLess(taskQueue.queue, taskQueue'.queue)

C30_QueueOrder ==
    /\ [](SortedByPriority /\ WithinMaxSize)
    /\ [][EnqueueArrives /\ PrioritizeArrives]_vars
    /\ [][DequeueTakesHead /\ OthersKeepTheirOrder]_vars

\* enqueue has put a task behind a waiting task of its own priority.
C30_Witness ==
    /\ last.op = "enqueue"
    /\ last.ret = TRUE
    /\ Len(taskQueue.queue) = 2
    /\ taskQueue.queue[1].priority = taskQueue.queue[2].priority
    /\ taskQueue.queue[2].id = last.arg
    /\ taskQueue.queue[1].id # last.arg

====
